---- MODULE Spec2Model ----
(***************************************************************************)
(* Balance reconciliation of a liquidity position                          *)
(* (get_liquidity_position_balances, src/src/lib.rs) as a state machine:   *)
(* the outflow computation, the two integral walks over the exit journals  *)
(* and the final per-side settlement, one action per block of the code.    *)
(***************************************************************************)
EXTENDS Integers, FiniteSets, Sequences, TLC

(* ---------------- program constants (crate::constants) ----------------- *)

\* Number of steps recorded in one exits account.
ARRAY_LENGTH == 2

\* Fixed-point scale of the stored balances and of the two integrals.
BOOKKEEPING_PRECISION_FACTOR == 4

\* oracle-flow/main.rs 22: FLOW_REDUCTION_FACTOR = 0.99, in percent.
FLOW_REDUCTION_PERCENT == 99

\* oracle-flow/main.rs 23: MAX_FLOW_REDUCTION_ATTEMPTS (200 in the source;
\* taken small with the requested flows, so that the budget can run out).
MAX_FLOW_REDUCTION_ATTEMPTS == 3

(* ------------------------------ bounds ---------------------------------- *)

\* Width in bits that stands for Rust's u64 in the model.
Bits64 == 8

\* Width in bits that stands for Rust's u128 in the model.
Bits128 == 16

\* Largest ledger slot the agent reads as current slot.
MaxSlot == 5

\* Largest slot of the bookkeeping checkpoint.
MaxCheckpointSlot == 2

\* Largest aggregate market flow per side.
MaxFlow == 2

\* Largest market end_slot_interval (window segment length).
MaxInterval == 2

\* Largest count of slots without trade recorded in the bookkeeping.
MaxInactive == 1

\* Largest integral stored in the bookkeeping checkpoint.
MaxStoredIntegral == 5

\* Largest stored balance of a position, in native token units.
MaxBalanceUnits == 10

\* Largest base flow a position quotes.
MaxPositionFlow == 3

\* Largest flow divisor of the configuration.
MaxFlowDivisor == 3

\* Largest flow requested of the backoff submitter.
MaxRequestedFlow == 5

\* The positive base flow an evaluation of the agent decides (or it decides 0).
MaxDecidedFlow == 1

\* Notifications delivered to the agent, and so reactive tasks spawned.
MaxNotifications == 2

\* Event streams the agent subscribes to, the first one included.
MaxStreams == 2

U64 == 2 ^ Bits64
U128 == 2 ^ Bits128

(* --------------------------- integer helpers ---------------------------- *)

\* Rust's arithmetic on an unsigned type of modulus M: v is the wrapped
\* value (overflow checks off), o says the exact result is not representable
\* (overflow checks on: the operation panics).
SubW(a, b, M) == [v |-> (a - b) % M, o |-> a < b]
AddW(a, b, M) == [v |-> (a + b) % M, o |-> a + b >= M]
MulW(a, b, M) == [v |-> (a * b) % M, o |-> a * b >= M]

(* ------------------------------- state ---------------------------------- *)

VARIABLES
    pc,                  \* position of the call in the function body
    liquidity_position,  \* argument: the LiquidityPosition account
    bookkeeping,         \* argument: the Bookkeeping account
    market,              \* argument: the Market account
    current_slot,        \* argument: the slot the caller read
    exits,               \* the ledger's Exits accounts by window index
    outflow,             \* accumulated_base_outflow / accumulated_quote_outflow
    walk,                \* the locals of the integral walk in progress
    integrals,           \* base_per_quote / quote_per_base once reconstructed
    balances,            \* the LiquidityPositionBalances returned
    wrapped,             \* some arithmetic step wrapped or lost bits
    fault,               \* why the call panicked, "none" while it has not
    ledger,              \* the ledger: its slot and its accounts
    action,              \* the PositionAction evaluate_position decided
    backoff,             \* the locals of execute_update_flows_with_backoff
    requests,            \* the requests the backoff submitter sent to the ledger
    main_loop,           \* a binary's main: its position and the locals it holds
    update_flows_task,   \* the periodic task: its position, decision and last error
    tasks,               \* the scheduled reactive tasks ever spawned, by id
    current_task,        \* the id in main's current_task handle, 0 for None
    stream,              \* the event subscription and its channel
    interrupt,           \* an operator interrupt is pending
    sent,                \* the requests the agent's tasks sent to the ledger
    call                 \* one call of a pure function: its arguments and result

vars == <<pc, liquidity_position, bookkeeping, market, current_slot, exits,
          outflow, walk, integrals, balances, wrapped, fault, ledger, action,
          backoff, requests, main_loop, update_flows_task, tasks, current_task,
          stream, interrupt, sent, call>>

\* The variables of the inventory-flow agent's scheduler.
agentVars == <<main_loop, update_flows_task, tasks, current_task, stream, interrupt, sent>>

\* The result of fetching an account that does not exist (Err).
NotFound == [ok |-> FALSE]

NoWalk == [which |-> "none"]
NoOutflow == [base |-> 0, quote |-> 0]
NoIntegrals == [base_per_quote |-> 0, quote_per_base |-> 0]
NoBalances == [base_balance |-> 0, quote_balance |-> 0, base_debt |-> 0, quote_debt |-> 0]

\* The backoff submitter has not been called.
NoBackoff == [pc |-> "idle"]

\* No pure function is being called on its own.
NoCall == [pc |-> "idle"]

\* The agent's scheduler is not running: its variables hold fixed values.
NoAgent ==
    /\ main_loop = [pc |-> "idle"]
    /\ update_flows_task = [pc |-> "idle"]
    /\ tasks = <<>>
    /\ current_task = 0
    /\ stream = [open |-> FALSE]
    /\ interrupt = FALSE
    /\ sent = {}

\* No decision taken yet.
NoAction == [kind |-> "none", base_flow |-> 0, quote_flow |-> 0, reference_index |-> 0,
             flow_divisor |-> 0]

(* ----------------------- window index arithmetic ------------------------ *)

\* slot / ARRAY_LENGTH / end_slot_interval
WindowIndex(slot, mkt) == (slot \div ARRAY_LENGTH) \div mkt.end_slot_interval

\* First slot of window exits_index.
WindowBase(exits_index, mkt) == exits_index * mkt.end_slot_interval * ARRAY_LENGTH

StartIndex(exits_index, bk, mkt) ==
    IF exits_index = WindowIndex(bk.last_update_slot, mkt)
    THEN (bk.last_update_slot - WindowBase(exits_index, mkt)) \div mkt.end_slot_interval + 1
    ELSE 0

EndIndex(exits_index, mkt, slot) ==
    IF exits_index = WindowIndex(slot, mkt)
    THEN (slot - WindowBase(exits_index, mkt)) \div mkt.end_slot_interval
    ELSE ARRAY_LENGTH - 1

(* --------------------------- the integral walk -------------------------- *)

\* The exit amount of one side at step i of a fetched exits account; a
\* failed fetch counts as no exit.
ExitAmount(exits_account, side, i) ==
    IF ~exits_account.ok THEN 0
    ELSE IF side = "base" THEN exits_account.base_exits[i]
    ELSE exits_account.quote_exits[i]

\* PRECISION * numerator flow / denominator flow * slot_diff, added to the
\* integral; which = "bpq" divides base by quote, "qpb" quote by base.
\* z says the division is by zero (a panic in every build).
Increment(which, base_flow, quote_flow, slot_diff) ==
    LET num == IF which = "bpq" THEN base_flow ELSE quote_flow
        den == IF which = "bpq" THEN quote_flow ELSE base_flow
        scaled == MulW(BOOKKEEPING_PRECISION_FACTOR, num, U128)
        inc == MulW(scaled.v \div den, slot_diff, U128)
    IN  IF den = 0 THEN [v |-> 0, o |-> FALSE, z |-> TRUE]
        ELSE [v |-> inc.v, o |-> scaled.o \/ inc.o, z |-> FALSE]

\* The locals at the top of a walk block.
WalkInit(which, bk, mkt) ==
    [which |-> which,
     phase |-> "window",
     integral |-> IF which = "bpq" THEN bk.base_per_quote ELSE bk.quote_per_base,
     market_base_flow |-> mkt.base_flow,
     market_quote_flow |-> mkt.quote_flow,
     last_update_slot |-> bk.last_update_slot,
     exits_index |-> WindowIndex(bk.last_update_slot, mkt),
     exits_account |-> NotFound,
     i |-> 0,
     end_index |-> 0,
     o |-> FALSE,
     z |-> FALSE]

\* WalkEnterWindow keeping the previous window's account when the fetch fails.
WalkEnterWindow_KeepsStale(w, bk, mkt, ex, slot) ==
    [w EXCEPT !.phase = "steps",
              !.exits_account = IF ex[w.exits_index].ok THEN ex[w.exits_index]
                                ELSE w.exits_account,
              !.i = StartIndex(w.exits_index, bk, mkt),
              !.end_index = EndIndex(w.exits_index, mkt, slot),
              !.o = FALSE]

\* Top of one iteration of the outer loop: fetch the window's exits account
\* and compute the inner loop's range.
WalkEnterWindow(w, bk, mkt, ex, slot) ==
    [w EXCEPT !.phase = "steps",
              !.exits_account = ex[w.exits_index],
              !.i = StartIndex(w.exits_index, bk, mkt),
              !.end_index = EndIndex(w.exits_index, mkt, slot),
              !.o = FALSE]

\* WalkStep applying the step's exits before it integrates the segment.
WalkStep_ExitFirst(w, mkt) ==
    LET slot == w.i * mkt.end_slot_interval + WindowBase(w.exits_index, mkt)
        slot_diff == SubW(slot, w.last_update_slot, U64)
        base_exit == ExitAmount(w.exits_account, "base", w.i)
        quote_exit == ExitAmount(w.exits_account, "quote", w.i)
        nb == SubW(w.market_base_flow, base_exit, U128)
        nq == SubW(w.market_quote_flow, quote_exit, U128)
        inc == Increment(w.which, nb.v, nq.v, slot_diff.v)
        sum == AddW(w.integral, inc.v, U128)
    IN  IF w.market_base_flow = 0 \/ w.market_quote_flow = 0
        THEN [w EXCEPT !.i = w.i + 1,
                       !.last_update_slot = slot,
                       !.o = slot_diff.o]
        ELSE IF nb.v = 0 \/ nq.v = 0
        THEN [w EXCEPT !.i = w.i + 1,
                       !.last_update_slot = slot,
                       !.market_base_flow = nb.v,
                       !.market_quote_flow = nq.v,
                       !.o = slot_diff.o \/ nb.o \/ nq.o]
        ELSE [w EXCEPT !.i = w.i + 1,
                       !.last_update_slot = slot,
                       !.integral = sum.v,
                       !.market_base_flow = nb.v,
                       !.market_quote_flow = nq.v,
                       !.o = slot_diff.o \/ inc.o \/ sum.o \/ nb.o \/ nq.o,
                       !.z = inc.z]

\* WalkStep skipping a step only when the base flow is zero.
WalkStep_GuardBaseOnly(w, mkt) ==
    LET slot == w.i * mkt.end_slot_interval + WindowBase(w.exits_index, mkt)
        slot_diff == SubW(slot, w.last_update_slot, U64)
        inc == Increment(w.which, w.market_base_flow, w.market_quote_flow, slot_diff.v)
        sum == AddW(w.integral, inc.v, U128)
        base_exit == ExitAmount(w.exits_account, "base", w.i)
        quote_exit == ExitAmount(w.exits_account, "quote", w.i)
        nb == SubW(w.market_base_flow, base_exit, U128)
        nq == SubW(w.market_quote_flow, quote_exit, U128)
    IN  IF w.market_base_flow = 0
        THEN [w EXCEPT !.i = w.i + 1,
                       !.last_update_slot = slot,
                       !.o = slot_diff.o]
        ELSE [w EXCEPT !.i = w.i + 1,
                       !.last_update_slot = slot,
                       !.integral = sum.v,
                       !.market_base_flow = nb.v,
                       !.market_quote_flow = nq.v,
                       !.o = slot_diff.o \/ inc.o \/ sum.o \/ nb.o \/ nq.o,
                       !.z = inc.z]

\* WalkStep leaving last_update_slot where it was, so that the next segment
\* starts again from the same slot.
WalkStep_KeepsCheckpoint(w, mkt) ==
    LET slot == w.i * mkt.end_slot_interval + WindowBase(w.exits_index, mkt)
        slot_diff == SubW(slot, w.last_update_slot, U64)
        inc == Increment(w.which, w.market_base_flow, w.market_quote_flow, slot_diff.v)
        sum == AddW(w.integral, inc.v, U128)
        base_exit == ExitAmount(w.exits_account, "base", w.i)
        quote_exit == ExitAmount(w.exits_account, "quote", w.i)
        nb == SubW(w.market_base_flow, base_exit, U128)
        nq == SubW(w.market_quote_flow, quote_exit, U128)
    IN  IF w.market_base_flow = 0 \/ w.market_quote_flow = 0
        THEN [w EXCEPT !.i = w.i + 1,
                       !.o = slot_diff.o]
        ELSE [w EXCEPT !.i = w.i + 1,
                       !.integral = sum.v,
                       !.market_base_flow = nb.v,
                       !.market_quote_flow = nq.v,
                       !.o = slot_diff.o \/ inc.o \/ sum.o \/ nb.o \/ nq.o,
                       !.z = inc.z]

\* One iteration of the inner loop, at step w.i of window w.exits_index.
WalkStep(w, mkt) ==
    LET slot == w.i * mkt.end_slot_interval + WindowBase(w.exits_index, mkt)
        slot_diff == SubW(slot, w.last_update_slot, U64)
        inc == Increment(w.which, w.market_base_flow, w.market_quote_flow, slot_diff.v)
        sum == AddW(w.integral, inc.v, U128)
        base_exit == ExitAmount(w.exits_account, "base", w.i)
        quote_exit == ExitAmount(w.exits_account, "quote", w.i)
        nb == SubW(w.market_base_flow, base_exit, U128)
        nq == SubW(w.market_quote_flow, quote_exit, U128)
    IN  IF w.market_base_flow = 0 \/ w.market_quote_flow = 0
        THEN [w EXCEPT !.i = w.i + 1,
                       !.last_update_slot = slot,
                       !.o = slot_diff.o]
        ELSE [w EXCEPT !.i = w.i + 1,
                       !.last_update_slot = slot,
                       !.integral = sum.v,
                       !.market_base_flow = nb.v,
                       !.market_quote_flow = nq.v,
                       !.o = slot_diff.o \/ inc.o \/ sum.o \/ nb.o \/ nq.o,
                       !.z = inc.z]

\* WalkLeaveWindow without the partial segment up to current_slot.
WalkLeaveWindow_NoPartial(w, mkt, slot) ==
    [w EXCEPT !.phase = "window", !.exits_index = w.exits_index + 1, !.o = FALSE]

\* End of one iteration of the outer loop: in the current slot's window the
\* partial segment up to current_slot is added; then the next window.
WalkLeaveWindow(w, mkt, slot) ==
    LET slot_diff == SubW(slot, w.last_update_slot, U64)
        inc == Increment(w.which, w.market_base_flow, w.market_quote_flow, slot_diff.v)
        sum == AddW(w.integral, inc.v, U128)
        next == [w EXCEPT !.phase = "window", !.exits_index = w.exits_index + 1, !.o = FALSE]
    IN  IF w.exits_index # WindowIndex(slot, mkt) THEN next
        ELSE IF w.market_base_flow = 0 \/ w.market_quote_flow = 0
        THEN [next EXCEPT !.o = slot_diff.o]
        ELSE [next EXCEPT !.integral = sum.v,
                          !.o = slot_diff.o \/ inc.o \/ sum.o,
                          !.z = inc.z]

\* The outer loop's range last_update_index..=current_slot_index is exhausted.
WalkFinished(w, mkt, slot) ==
    w.phase = "window" /\ w.exits_index > WindowIndex(slot, mkt)

\* The next locals of a walk that is not finished.
WalkNext(w, bk, mkt, ex, slot) ==
    IF w.phase = "window" THEN WalkEnterWindow(w, bk, mkt, ex, slot)
    ELSE IF w.i <= w.end_index THEN WalkStep(w, mkt)
    ELSE WalkLeaveWindow(w, mkt, slot)

\* The walk run to its end from locals w: the rest of the block, as the
\* actions below take it one step at a time. o says some step overflowed.
RECURSIVE WalkRun(_, _, _, _, _, _)
WalkRun(w, o, bk, mkt, ex, slot) ==
    IF WalkFinished(w, mkt, slot) THEN [integral |-> w.integral, o |-> o, z |-> FALSE]
    ELSE LET n == WalkNext(w, bk, mkt, ex, slot)
         IN  IF n.z THEN [integral |-> w.integral, o |-> o, z |-> TRUE]
             ELSE WalkRun(n, o \/ n.o, bk, mkt, ex, slot)

\* base_per_quote (which = "bpq") or quote_per_base (which = "qpb") as the
\* function reconstructs it for current slot `slot`.
Reconstruct(which, bk, mkt, ex, slot) ==
    WalkRun(WalkInit(which, bk, mkt), FALSE, bk, mkt, ex, slot)

(* ------------------------- outflow and settlement ----------------------- *)

\* Outflows charging the inactive slots too.
Outflows_IgnoresInactive(pos, bk, slot) ==
    LET since == SubW(slot, pos.last_update_slot, U64)
        scaled == MulW(BOOKKEEPING_PRECISION_FACTOR, since.v, U128)
        base == MulW(scaled.v, pos.base_flow_u64, U128)
        quote == MulW(scaled.v, pos.quote_flow_u64, U128)
    IN  [base |-> base.v, quote |-> quote.v,
         o |-> since.o \/ scaled.o \/ base.o \/ quote.o]

\* Outflows counting the current slot as elapsed.
Outflows_InclusiveElapsed(pos, bk, slot) ==
    LET inactive_slots == SubW(bk.slots_without_trade, pos.slots_without_trade_snapshot, U64)
        since == SubW(slot + 1, pos.last_update_slot, U64)
        active == SubW(since.v, inactive_slots.v, U64)
        scaled == MulW(BOOKKEEPING_PRECISION_FACTOR, active.v, U128)
        base == MulW(scaled.v, pos.base_flow_u64, U128)
        quote == MulW(scaled.v, pos.quote_flow_u64, U128)
    IN  [base |-> base.v, quote |-> quote.v,
         o |-> inactive_slots.o \/ since.o \/ active.o \/ scaled.o \/ base.o \/ quote.o]

\* inactive_slots and the two accumulated outflows.
Outflows(pos, bk, slot) ==
    LET inactive_slots == SubW(bk.slots_without_trade, pos.slots_without_trade_snapshot, U64)
        since == SubW(slot, pos.last_update_slot, U64)
        active == SubW(since.v, inactive_slots.v, U64)
        scaled == MulW(BOOKKEEPING_PRECISION_FACTOR, active.v, U128)
        base == MulW(scaled.v, pos.base_flow_u64, U128)
        quote == MulW(scaled.v, pos.quote_flow_u64, U128)
    IN  [base |-> base.v, quote |-> quote.v,
         o |-> inactive_slots.o \/ since.o \/ active.o \/ scaled.o \/ base.o \/ quote.o]

\* (integral - snapshot) * the position's flow on the other side.
Inflow(integral, snapshot, flow) ==
    LET diff == SubW(integral, snapshot, U128)
        prod == MulW(diff.v, flow, U128)
    IN  [v |-> prod.v, o |-> diff.o \/ prod.o]

\* SettleSide leaving the stored balance in place when the side is in debt.
SettleSide_KeepsBalance(stored, inflow, out) ==
    LET have == AddW(stored, inflow, U128)
        short1 == SubW(out, stored, U128)
        short2 == SubW(short1.v, inflow, U128)
        left == SubW(have.v, out, U128)
    IN  IF out > have.v
        THEN [balance |-> (have.v \div BOOKKEEPING_PRECISION_FACTOR) % U64,
              debt |-> (short2.v \div BOOKKEEPING_PRECISION_FACTOR) % U64,
              o |-> have.o \/ short1.o \/ short2.o,
              lost |-> (short2.v \div BOOKKEEPING_PRECISION_FACTOR) >= U64]
        ELSE [balance |-> (left.v \div BOOKKEEPING_PRECISION_FACTOR) % U64,
              debt |-> 0,
              o |-> have.o \/ left.o,
              lost |-> (left.v \div BOOKKEEPING_PRECISION_FACTOR) >= U64]

\* One side's balance and debt from the stored balance, the inflow and the
\* outflow, narrowed to u64 (lost: the narrowing dropped bits).
SettleSide(stored, inflow, out) ==
    LET have == AddW(stored, inflow, U128)
        short1 == SubW(out, stored, U128)
        short2 == SubW(short1.v, inflow, U128)
        left == SubW(have.v, out, U128)
    IN  IF out > have.v
        THEN [balance |-> 0,
              debt |-> (short2.v \div BOOKKEEPING_PRECISION_FACTOR) % U64,
              o |-> have.o \/ short1.o \/ short2.o,
              lost |-> (short2.v \div BOOKKEEPING_PRECISION_FACTOR) >= U64]
        ELSE [balance |-> (left.v \div BOOKKEEPING_PRECISION_FACTOR) % U64,
              debt |-> 0,
              o |-> have.o \/ left.o,
              lost |-> (left.v \div BOOKKEEPING_PRECISION_FACTOR) >= U64]

\* Settle weighting each integral by the position's flow on the same side.
Settle_SameSideFlow(pos, out, ints) ==
    LET base_in == Inflow(ints.base_per_quote, pos.base_per_quote_snapshot, pos.base_flow_u64)
        quote_in == Inflow(ints.quote_per_base, pos.quote_per_base_snapshot, pos.quote_flow_u64)
        b == SettleSide(pos.base_balance, base_in.v, out.base)
        q == SettleSide(pos.quote_balance, quote_in.v, out.quote)
    IN  [base_balance |-> b.balance, quote_balance |-> q.balance,
         base_debt |-> b.debt, quote_debt |-> q.debt,
         o |-> base_in.o \/ quote_in.o \/ b.o \/ q.o,
         lost |-> b.lost \/ q.lost]

\* The tail of the function: both inflows, both sides, the returned struct.
Settle(pos, out, ints) ==
    LET base_in == Inflow(ints.base_per_quote, pos.base_per_quote_snapshot, pos.quote_flow_u64)
        quote_in == Inflow(ints.quote_per_base, pos.quote_per_base_snapshot, pos.base_flow_u64)
        b == SettleSide(pos.base_balance, base_in.v, out.base)
        q == SettleSide(pos.quote_balance, quote_in.v, out.quote)
    IN  [base_balance |-> b.balance, quote_balance |-> q.balance,
         base_debt |-> b.debt, quote_debt |-> q.debt,
         o |-> base_in.o \/ quote_in.o \/ b.o \/ q.o,
         lost |-> b.lost \/ q.lost]

\* How a step ends: exactly; or, when an exact result is not representable,
\* by a panic (overflow checks on) or wrapped (checks off); a division by
\* zero panics in every build.
Builds(o, z) ==
    IF z THEN {"panic"} ELSE IF o THEN {"panic", "wrap"} ELSE {"exact"}

Cause(z) == IF z THEN "div_by_zero" ELSE "overflow"

(* ------------------------------- actions -------------------------------- *)

Arguments == <<liquidity_position, bookkeeping, market, current_slot, exits, ledger>>

\* The state of the callers, which the reconciliation does not touch.
Caller == <<action, backoff, requests, agentVars, call>>

\* lib.rs 59-85.
ComputeOutflow ==
    /\ pc = "outflow"
    /\ LET r == Outflows(liquidity_position, bookkeeping, current_slot)
       IN  \E build \in Builds(r.o, FALSE) :
             IF build = "panic"
             THEN /\ pc' = "panicked"
                  /\ fault' = "overflow"
                  /\ UNCHANGED <<outflow, walk, wrapped>>
             ELSE /\ pc' = "walk"
                  /\ outflow' = [base |-> r.base, quote |-> r.quote]
                  /\ walk' = WalkInit("bpq", bookkeeping, market)
                  /\ wrapped' = (wrapped \/ r.o)
                  /\ fault' = fault
    /\ UNCHANGED <<Arguments, Caller, integrals, balances>>

\* The walk in progress takes the step that leads to locals n.
WalkTake(n) ==
    /\ \E build \in Builds(n.o, n.z) :
         IF build = "panic"
         THEN /\ pc' = "panicked"
              /\ fault' = Cause(n.z)
              /\ UNCHANGED <<walk, wrapped>>
         ELSE /\ pc' = pc
              /\ walk' = n
              /\ wrapped' = (wrapped \/ n.o)
              /\ fault' = fault
    /\ UNCHANGED <<Arguments, Caller, outflow, integrals, balances>>

\* lib.rs 101-120 and 170-188: the window's exits account is fetched.
EnterWindow ==
    /\ pc = "walk"
    /\ walk.phase = "window"
    /\ ~WalkFinished(walk, market, current_slot)
    /\ WalkTake(WalkEnterWindow(walk, bookkeeping, market, exits, current_slot))

\* lib.rs 122-145 and 190-212: one step of the window.
StepSegment ==
    /\ pc = "walk"
    /\ walk.phase = "steps"
    /\ walk.i <= walk.end_index
    /\ WalkTake(WalkStep(walk, market))

\* lib.rs 147-157 and 214-224: the window's steps are done.
LeaveWindow ==
    /\ pc = "walk"
    /\ walk.phase = "steps"
    /\ walk.i > walk.end_index
    /\ WalkTake(WalkLeaveWindow(walk, market, current_slot))

\* lib.rs 158-159 and 225-226: the block's value; the second walk starts
\* after the first, the settlement after the second.
WalkEnd ==
    /\ pc = "walk"
    /\ WalkFinished(walk, market, current_slot)
    /\ IF walk.which = "bpq"
       THEN /\ integrals' = [integrals EXCEPT !.base_per_quote = walk.integral]
            /\ walk' = WalkInit("qpb", bookkeeping, market)
            /\ pc' = pc
       ELSE /\ integrals' = [integrals EXCEPT !.quote_per_base = walk.integral]
            /\ walk' = walk
            /\ pc' = "settle"
    /\ UNCHANGED <<Arguments, Caller, outflow, balances, wrapped, fault>>

\* lib.rs 228-270.
SettleBalances ==
    /\ pc = "settle"
    /\ LET r == Settle(liquidity_position, outflow, integrals)
       IN  \E build \in Builds(r.o, FALSE) :
             IF build = "panic"
             THEN /\ pc' = "panicked"
                  /\ fault' = "overflow"
                  /\ UNCHANGED <<balances, wrapped>>
             ELSE /\ pc' = "done"
                  /\ balances' = [base_balance |-> r.base_balance,
                                  quote_balance |-> r.quote_balance,
                                  base_debt |-> r.base_debt,
                                  quote_debt |-> r.quote_debt]
                  /\ wrapped' = (wrapped \/ r.o \/ r.lost)
                  /\ fault' = fault
    /\ UNCHANGED <<Arguments, Caller, outflow, walk, integrals>>

(* --------------------------- initial states ----------------------------- *)

\* Window indices the walk can visit.
Windows == 0 .. (MaxSlot \div ARRAY_LENGTH)

Steps == 0 .. (ARRAY_LENGTH - 1)

NoExits == [i \in Steps |-> 0]

\* The exit amounts of an account with one exit of amount a at step i.
OneExit(i, a) == [j \in Steps |-> IF j = i THEN a ELSE 0]

Markets ==
    [base_flow : 0 .. MaxFlow, quote_flow : 0 .. MaxFlow, end_slot_interval : 1 .. MaxInterval]

Bookkeepings ==
    [base_per_quote : {MaxStoredIntegral},
     quote_per_base : {MaxStoredIntegral - 1},
     last_update_slot : 0 .. MaxCheckpointSlot,
     slots_without_trade : 0 .. MaxInactive]

\* The ledger's exit journals: at most one base exit and one quote exit
\* pending, both in one window and neither above the market's flow, and at
\* most one window whose account does not exist.
Journals(mkt) ==
    { [w \in Windows |->
         IF w = missing THEN NotFound
         ELSE [ok |-> TRUE,
               base_exits |-> IF w = ew THEN OneExit(bi, ba) ELSE NoExits,
               quote_exits |-> IF w = ew THEN OneExit(qi, qa) ELSE NoExits]] :
      missing \in Windows \cup {-1},
      ew \in Windows,
      bi \in Steps, ba \in 0 .. (IF mkt.base_flow > 0 THEN 1 ELSE 0),
      qi \in Steps, qa \in 0 .. (IF mkt.quote_flow > 0 THEN 1 ELSE 0) }

PlainJournal == [w \in Windows |-> [ok |-> TRUE, base_exits |-> NoExits, quote_exits |-> NoExits]]

\* Positions last settled at or before the checkpoint: every snapshot is at
\* most the bookkeeping's value, and the market was inactive for at most the
\* slots between the settlement and the checkpoint.
Positions(bk) ==
    { p \in
    { [base_balance |-> bal[1] * BOOKKEEPING_PRECISION_FACTOR + bal[3],
       quote_balance |-> bal[2] * BOOKKEEPING_PRECISION_FACTOR,
       base_flow_u64 |-> bf,
       quote_flow_u64 |-> qf,
       last_update_slot |-> last,
       slots_without_trade_snapshot |-> swt,
       base_per_quote_snapshot |-> IF old THEN 0 ELSE bk.base_per_quote,
       quote_per_base_snapshot |-> IF old THEN 0 ELSE bk.quote_per_base] :
      bal \in {<<0, MaxBalanceUnits, 0>>, <<1, 0, 1>>, <<MaxBalanceUnits, MaxBalanceUnits, 0>>},
      bf \in 0 .. MaxPositionFlow,
      qf \in 0 .. 1,
      last \in 0 .. bk.last_update_slot,
      swt \in 0 .. bk.slots_without_trade,
      old \in BOOLEAN } :
      bk.slots_without_trade - p.slots_without_trade_snapshot
          <= bk.last_update_slot - p.last_update_slot }

\* The position settled at the checkpoint itself.
FreshPosition(bk) ==
    [base_balance |-> MaxBalanceUnits * BOOKKEEPING_PRECISION_FACTOR,
     quote_balance |-> BOOKKEEPING_PRECISION_FACTOR,
     base_flow_u64 |-> 1,
     quote_flow_u64 |-> 1,
     last_update_slot |-> bk.last_update_slot,
     slots_without_trade_snapshot |-> bk.slots_without_trade,
     base_per_quote_snapshot |-> bk.base_per_quote,
     quote_per_base_snapshot |-> bk.quote_per_base]

\* The call's locals before its first statement.
InitLocals ==
    /\ pc = "outflow"
    /\ outflow = NoOutflow
    /\ walk = NoWalk
    /\ integrals = NoIntegrals
    /\ balances = NoBalances
    /\ wrapped = FALSE
    /\ fault = "none"

\* Any market and journals, read by the position settled at the checkpoint.
InitJournals ==
    /\ market \in Markets
    /\ bookkeeping \in {bk \in Bookkeepings : bk.slots_without_trade = 0}
    /\ current_slot \in bookkeeping.last_update_slot .. MaxSlot
    /\ exits \in Journals(market)
    /\ liquidity_position = FreshPosition(bookkeeping)

\* Any position, in a market of the longest window with no exit pending.
InitPositions ==
    /\ market \in {m \in Markets : /\ m.base_flow > 0
                                   /\ m.quote_flow = 1
                                   /\ m.end_slot_interval = MaxInterval}
    /\ bookkeeping \in Bookkeepings
    /\ current_slot \in bookkeeping.last_update_slot .. MaxSlot
    /\ exits = PlainJournal
    /\ liquidity_position \in Positions(bookkeeping)

\* The ledger whose accounts are the call's arguments.
LedgerOf(slot, mkt, bk, pos) ==
    [slot |-> slot, market |-> mkt, bookkeeping |-> bk, position |-> pos]

\* The function is called with a consistent snapshot of the ledger.
Init ==
    /\ InitJournals \/ InitPositions
    /\ ledger = LedgerOf(current_slot, market, bookkeeping, liquidity_position)
    /\ InitLocals
    /\ action = NoAction
    /\ backoff = NoBackoff
    /\ requests = <<>>
    /\ call = NoCall
    /\ NoAgent

Next ==
    \/ ComputeOutflow
    \/ EnterWindow
    \/ StepSegment
    \/ LeaveWindow
    \/ WalkEnd
    \/ SettleBalances

Spec == Init /\ [][Next]_vars

(* ------------------- the evaluation cycle's reads ----------------------- *)

\* fetchers.rs 28: fetch_market_state reads the Market account.
FetchMarket ==
    /\ pc = "fetch_market"
    /\ market' = ledger.market
    /\ pc' = "fetch_bookkeeping"
    /\ UNCHANGED <<liquidity_position, bookkeeping, current_slot, exits, outflow, walk,
                   integrals, balances, wrapped, fault, ledger, Caller>>

\* fetchers.rs 29-31: then the Bookkeeping account.
FetchBookkeeping ==
    /\ pc = "fetch_bookkeeping"
    /\ bookkeeping' = ledger.bookkeeping
    /\ pc' = "fetch_slot"
    /\ UNCHANGED <<liquidity_position, market, current_slot, exits, outflow, walk,
                   integrals, balances, wrapped, fault, ledger, Caller>>

\* fetchers.rs 32: then the current slot.
FetchSlot ==
    /\ pc = "fetch_slot"
    /\ current_slot' = ledger.slot
    /\ pc' = "fetch_position"
    /\ UNCHANGED <<liquidity_position, bookkeeping, market, exits, outflow, walk,
                   integrals, balances, wrapped, fault, ledger, Caller>>

\* position.rs 37 and fetchers.rs 41-52: evaluate_position then reads the
\* LiquidityPosition account and (position.rs 42-49) calls the reconciliation.
FetchPosition ==
    /\ pc = "fetch_position"
    /\ liquidity_position' = ledger.position
    /\ pc' = "outflow"
    /\ UNCHANGED <<bookkeeping, market, current_slot, exits, outflow, walk,
                   integrals, balances, wrapped, fault, ledger, Caller>>

\* The ledger after a flow update of the position is committed in its next
\* slot: the checkpoint moves to that slot and the position is settled
\* there, its snapshots taken from the new checkpoint.
LedgerSettled(l, ex) ==
    LET slot == l.slot + 1
        bpq == Reconstruct("bpq", l.bookkeeping, l.market, ex, slot).integral
        qpb == Reconstruct("qpb", l.bookkeeping, l.market, ex, slot).integral
        due == Settle(l.position, Outflows(l.position, l.bookkeeping, slot),
                      [base_per_quote |-> bpq, quote_per_base |-> qpb])
    IN  [slot |-> slot,
         market |-> l.market,
         bookkeeping |-> [l.bookkeeping EXCEPT !.base_per_quote = bpq,
                                               !.quote_per_base = qpb,
                                               !.last_update_slot = slot],
         position |-> [l.position EXCEPT
                         !.base_balance = due.base_balance * BOOKKEEPING_PRECISION_FACTOR,
                         !.quote_balance = due.quote_balance * BOOKKEEPING_PRECISION_FACTOR,
                         !.last_update_slot = slot,
                         !.slots_without_trade_snapshot = l.bookkeeping.slots_without_trade,
                         !.base_per_quote_snapshot = bpq,
                         !.quote_per_base_snapshot = qpb]]

\* A flow update of the position, sent by the agent's other cadence, is
\* committed while this cycle is reading. (A commit after the reads changes
\* no value the cycle holds.)
LedgerCommit ==
    /\ pc \in {"fetch_market", "fetch_bookkeeping", "fetch_slot", "fetch_position"}
    /\ ledger.slot < MaxSlot
    /\ ledger' = LedgerSettled(ledger, exits)
    /\ UNCHANGED <<pc, liquidity_position, bookkeeping, market, current_slot, exits,
                   outflow, walk, integrals, balances, wrapped, fault, Caller>>

\* position.rs 51-59 with the reference_index of 39-40, for the balances the
\* reconciliation returned. z: the division by flow_divisor = 0 panics.
Decision_StopOnBothDebts(bal, slot, mkt, flow_divisor) ==
    LET reference_index == WindowIndex(slot, mkt)
    IN  IF bal.base_debt > 0 /\ bal.quote_debt > 0
        THEN [kind |-> "Stop", base_flow |-> 0, quote_flow |-> 0,
              reference_index |-> reference_index, flow_divisor |-> flow_divisor,
              z |-> FALSE]
        ELSE IF flow_divisor = 0
        THEN [NoAction EXCEPT !.flow_divisor = flow_divisor] @@ [z |-> TRUE]
        ELSE [kind |-> "UpdateFlows",
              base_flow |-> bal.base_balance \div flow_divisor,
              quote_flow |-> bal.quote_balance \div flow_divisor,
              reference_index |-> reference_index, flow_divisor |-> flow_divisor,
              z |-> FALSE]

Decision(bal, slot, mkt, flow_divisor) ==
    LET reference_index == WindowIndex(slot, mkt)
    IN  IF bal.base_debt > 0 \/ bal.quote_debt > 0
        THEN [kind |-> "Stop", base_flow |-> 0, quote_flow |-> 0,
              reference_index |-> reference_index, flow_divisor |-> flow_divisor,
              z |-> FALSE]
        ELSE IF flow_divisor = 0
        THEN [NoAction EXCEPT !.flow_divisor = flow_divisor] @@ [z |-> TRUE]
        ELSE [kind |-> "UpdateFlows",
              base_flow |-> bal.base_balance \div flow_divisor,
              quote_flow |-> bal.quote_balance \div flow_divisor,
              reference_index |-> reference_index, flow_divisor |-> flow_divisor,
              z |-> FALSE]

\* The FLOW_DIVISOR values of the configuration (config.rs 52-54 parses any
\* u64, zero included).
FlowDivisors == 0 .. MaxFlowDivisor

\* position.rs 51-66: evaluate_position turns the balances into its action.
Decide ==
    /\ pc = "done"
    /\ \E flow_divisor \in FlowDivisors :
         LET d == Decision(balances, current_slot, market, flow_divisor)
         IN  IF d.z
             THEN /\ pc' = "panicked"
                  /\ fault' = "div_by_zero"
                  /\ action' = action
             ELSE /\ pc' = "decided"
                  /\ fault' = fault
                  /\ action' = [kind |-> d.kind, base_flow |-> d.base_flow,
                                quote_flow |-> d.quote_flow,
                                reference_index |-> d.reference_index,
                                flow_divisor |-> d.flow_divisor]
    /\ UNCHANGED <<Arguments, outflow, walk, integrals, balances, wrapped,
                   backoff, requests, agentVars, call>>

\* A cycle starts on a ledger that holds a settled position in a market
\* with no exit pending; what the cycle holds before it reads is not used.
InitCycle ==
    /\ market \in {m \in Markets : /\ m.base_flow = MaxFlow
                                   /\ m.quote_flow = 1
                                   /\ m.end_slot_interval = MaxInterval}
    /\ bookkeeping \in {bk \in Bookkeepings : bk.slots_without_trade = 0}
    /\ current_slot \in bookkeeping.last_update_slot .. MaxSlot
    /\ exits = PlainJournal
    /\ liquidity_position \in {p \in Positions(bookkeeping) :
                                 /\ p.base_balance > BOOKKEEPING_PRECISION_FACTOR + 1
                                 /\ p.base_per_quote_snapshot = bookkeeping.base_per_quote}
    /\ ledger = LedgerOf(current_slot, market, bookkeeping, liquidity_position)
    /\ pc = "fetch_market"
    /\ outflow = NoOutflow
    /\ walk = NoWalk
    /\ integrals = NoIntegrals
    /\ balances = NoBalances
    /\ wrapped = FALSE
    /\ fault = "none"
    /\ action = NoAction
    /\ backoff = NoBackoff
    /\ requests = <<>>
    /\ call = NoCall
    /\ NoAgent

NextCycle ==
    \/ FetchMarket
    \/ FetchBookkeeping
    \/ FetchSlot
    \/ FetchPosition
    \/ LedgerCommit
    \/ Next
    \/ Decide

\* One evaluation cycle of the agent, from its first read to the result of
\* the reconciliation, on a ledger that other commits change meanwhile.
SpecCycle == InitCycle /\ [][NextCycle]_vars

(* ------------------------- the backoff submitter ------------------------ *)

\* Every variable of the evaluation cycle.
cycleVars == <<pc, liquidity_position, bookkeeping, market, current_slot, exits,
               outflow, walk, integrals, balances, wrapped, fault, ledger, action>>

\* No evaluation cycle is running: its variables hold fixed values.
NoCycle ==
    /\ pc = "idle"
    /\ market = [base_flow |-> 1, quote_flow |-> 1, end_slot_interval |-> 1]
    /\ bookkeeping = [base_per_quote |-> 0, quote_per_base |-> 0, last_update_slot |-> 0,
                      slots_without_trade |-> 0]
    /\ liquidity_position = FreshPosition(bookkeeping)
    /\ current_slot = 0
    /\ exits = PlainJournal
    /\ ledger = LedgerOf(current_slot, market, bookkeeping, liquidity_position)
    /\ outflow = NoOutflow
    /\ walk = NoWalk
    /\ integrals = NoIntegrals
    /\ balances = NoBalances
    /\ wrapped = FALSE
    /\ fault = "none"
    /\ action = NoAction

Max2(a, b) == IF a >= b THEN a ELSE b
Min2(a, b) == IF a <= b THEN a ELSE b

\* A mutant of reduce_flow: the reduced flow is rounded up, not down.
reduce_flow_Ceiling(flow) ==
    IF flow <= 1
    THEN flow
    ELSE (flow * FLOW_REDUCTION_PERCENT + 99) \div 100

\* oracle-flow/main.rs 321-328: reduce_flow(flow, FLOW_REDUCTION_FACTOR).
reduce_flow(flow) ==
    IF flow <= 1
    THEN flow
    ELSE LET reduced == (flow * FLOW_REDUCTION_PERCENT) \div 100
         IN  Min2(Max2(reduced, 1), flow - 1)

\* What a simulation can return: no error, or an error (the custom code
\* 6013, another custom code, or another kind of error) with logs that are
\* absent, plain, or carry the unhealthy diagnostic text.
Simulations ==
    {[err |-> "none", logs |-> "plain"]} \cup
    [err : {"custom_6013", "custom_other", "other"},
     logs : {"absent", "plain", "unhealthy_text"}]

\* A mutant of is_liquidity_position_unhealthy: only the error code counts.
is_liquidity_position_unhealthy_CodeOnly(simulation) ==
    simulation.err = "custom_6013"

\* oracle-flow/main.rs 295-319.
is_liquidity_position_unhealthy(simulation) ==
    \/ simulation.err = "custom_6013"
    \/ simulation.logs = "unhealthy_text"

\* oracle-flow/main.rs 221-238: the request that is simulated.
SimulateRequest(b, simulation) ==
    [kind |-> "simulate",
     base_flow_u64 |-> b.candidate_base_flow,
     quote_flow_u64 |-> b.candidate_quote_flow,
     reference_index |-> b.reference_index,
     err |-> simulation.err]

\* A commit of the flows the caller asked for, not of the simulated candidate.
CommitRequest_RequestedFlows(b, outcome) ==
    [kind |-> "commit",
     base_flow_u64 |-> b.base_flow,
     quote_flow_u64 |-> b.quote_flow,
     reference_index |-> b.reference_index,
     err |-> outcome]

\* oracle-flow/main.rs 240-248: the request execute_update_flows commits.
CommitRequest(b, outcome) ==
    [kind |-> "commit",
     base_flow_u64 |-> b.candidate_base_flow,
     quote_flow_u64 |-> b.candidate_quote_flow,
     reference_index |-> b.reference_index,
     err |-> outcome]

NoSimulation == [err |-> "none", logs |-> "absent"]
NoResult == [ok |-> FALSE, base_flow |-> 0, quote_flow |-> 0, error |-> "none"]

\* The call returns Err(error).
BackoffFail(error) ==
    backoff' = [backoff EXCEPT !.pc = "returned",
                               !.result = [NoResult EXCEPT !.error = error]]

\* A mutant of BackoffEnter: the requested flows are not floored.
BackoffEnter_NoFloor ==
    /\ backoff.pc = "called"
    /\ backoff' = [backoff EXCEPT !.pc = "attempt",
                                  !.candidate_base_flow = backoff.base_flow,
                                  !.candidate_quote_flow = backoff.quote_flow]
    /\ UNCHANGED <<cycleVars, agentVars, call, requests>>

\* oracle-flow/main.rs 217-218: both requested flows are floored at 1.
BackoffEnter ==
    /\ backoff.pc = "called"
    /\ backoff' = [backoff EXCEPT !.pc = "attempt",
                                  !.candidate_base_flow = Max2(backoff.base_flow, 1),
                                  !.candidate_quote_flow = Max2(backoff.quote_flow, 1)]
    /\ UNCHANGED <<cycleVars, agentVars, call, requests>>

\* oracle-flow/main.rs 220-238: the candidate is built, signed and simulated;
\* signing or the simulation call itself can fail (`?`).
BackoffSimulate ==
    /\ backoff.pc = "attempt"
    /\ backoff.attempt < MAX_FLOW_REDUCTION_ATTEMPTS
    /\ \/ /\ BackoffFail("rpc")
          /\ UNCHANGED requests
       \/ \E simulation \in Simulations :
            /\ requests' = Append(requests, SimulateRequest(backoff, simulation))
            /\ backoff' = [backoff EXCEPT !.pc = "simulated",
                                          !.simulation = simulation]
    /\ UNCHANGED <<cycleVars, agentVars, call>>

\* oracle-flow/main.rs 239-250: no simulation error, the candidate is
\* committed and returned; a failed commit is returned as the error (`?`).
BackoffCommit ==
    /\ backoff.pc = "simulated"
    /\ backoff.simulation.err = "none"
    /\ \E outcome \in {"none", "failed"} :
         /\ requests' = Append(requests, CommitRequest(backoff, outcome))
         /\ IF outcome = "none"
            THEN backoff' = [backoff EXCEPT
                               !.pc = "returned",
                               !.result = [ok |-> TRUE,
                                           base_flow |-> backoff.candidate_base_flow,
                                           quote_flow |-> backoff.candidate_quote_flow,
                                           error |-> "none"]]
            ELSE BackoffFail("commit")
    /\ UNCHANGED <<cycleVars, agentVars, call>>

\* A mutant of BackoffShrink: a retry does not use up an attempt.
BackoffShrink_KeepsAttempt ==
    /\ backoff.pc = "simulated"
    /\ backoff.simulation.err # "none"
    /\ is_liquidity_position_unhealthy(backoff.simulation)
    /\ LET next_base_flow == reduce_flow(backoff.candidate_base_flow)
           next_quote_flow == reduce_flow(backoff.candidate_quote_flow)
       IN  IF /\ next_base_flow = backoff.candidate_base_flow
              /\ next_quote_flow = backoff.candidate_quote_flow
           THEN BackoffFail("cannot_reduce")
           ELSE backoff' = [backoff EXCEPT !.pc = "attempt",
                                           !.candidate_base_flow = next_base_flow,
                                           !.candidate_quote_flow = next_quote_flow]
    /\ UNCHANGED <<cycleVars, agentVars, call, requests>>

\* A mutant of BackoffShrink: the loop retries even when neither candidate
\* can shrink.
BackoffShrink_NoFloorCheck ==
    /\ backoff.pc = "simulated"
    /\ backoff.simulation.err # "none"
    /\ is_liquidity_position_unhealthy(backoff.simulation)
    /\ backoff' = [backoff EXCEPT
                     !.pc = "attempt",
                     !.candidate_base_flow = reduce_flow(backoff.candidate_base_flow),
                     !.candidate_quote_flow = reduce_flow(backoff.candidate_quote_flow),
                     !.attempt = backoff.attempt + 1]
    /\ UNCHANGED <<cycleVars, agentVars, call, requests>>

\* oracle-flow/main.rs 252-278: an unhealthy simulation shrinks both
\* candidates, or fails when neither can shrink.
BackoffShrink ==
    /\ backoff.pc = "simulated"
    /\ backoff.simulation.err # "none"
    /\ is_liquidity_position_unhealthy(backoff.simulation)
    /\ LET next_base_flow == reduce_flow(backoff.candidate_base_flow)
           next_quote_flow == reduce_flow(backoff.candidate_quote_flow)
       IN  IF /\ next_base_flow = backoff.candidate_base_flow
              /\ next_quote_flow = backoff.candidate_quote_flow
           THEN BackoffFail("cannot_reduce")
           ELSE backoff' = [backoff EXCEPT !.pc = "attempt",
                                           !.candidate_base_flow = next_base_flow,
                                           !.candidate_quote_flow = next_quote_flow,
                                           !.attempt = backoff.attempt + 1]
    /\ UNCHANGED <<cycleVars, agentVars, call, requests>>

\* oracle-flow/main.rs 280-284: any other simulation error.
BackoffReject ==
    /\ backoff.pc = "simulated"
    /\ backoff.simulation.err # "none"
    /\ ~is_liquidity_position_unhealthy(backoff.simulation)
    /\ BackoffFail("non_retriable")
    /\ UNCHANGED <<cycleVars, agentVars, call, requests>>

\* A mutant of BackoffExhausted: the error is the one of the floor.
BackoffExhausted_AsCannotReduce ==
    /\ backoff.pc = "attempt"
    /\ backoff.attempt >= MAX_FLOW_REDUCTION_ATTEMPTS
    /\ BackoffFail("cannot_reduce")
    /\ UNCHANGED <<cycleVars, agentVars, call, requests>>

\* oracle-flow/main.rs 287-292: the attempts are used up.
BackoffExhausted ==
    /\ backoff.pc = "attempt"
    /\ backoff.attempt >= MAX_FLOW_REDUCTION_ATTEMPTS
    /\ BackoffFail("exhausted")
    /\ UNCHANGED <<cycleVars, agentVars, call, requests>>

\* oracle-flow/main.rs 188-196: the submitter is called with any flows.
InitBackoff ==
    /\ NoCycle
    /\ NoAgent
    /\ requests = <<>>
    /\ call = NoCall
    /\ \E base_flow \in 0 .. MaxRequestedFlow, quote_flow \in 0 .. MaxRequestedFlow,
          reference_index \in 0 .. 1 :
         backoff = [pc |-> "called",
                    base_flow |-> base_flow,
                    quote_flow |-> quote_flow,
                    reference_index |-> reference_index,
                    candidate_base_flow |-> 0,
                    candidate_quote_flow |-> 0,
                    attempt |-> 0,
                    simulation |-> NoSimulation,
                    result |-> NoResult]

NextBackoff ==
    \/ BackoffEnter
    \/ BackoffSimulate
    \/ BackoffCommit
    \/ BackoffShrink
    \/ BackoffReject
    \/ BackoffExhausted

\* One call of execute_update_flows_with_backoff.
SpecBackoff == InitBackoff /\ [][NextBackoff]_vars

\* The caller awaits the call, so the loop keeps being polled until it
\* returns.
SpecBackoffLive == SpecBackoff /\ WF_vars(NextBackoff)

(* -------------------- the inventory-flow scheduler ---------------------- *)

\* The variables of the other components.
otherVars == <<cycleVars, backoff, requests, call>>

\* Neither an evaluation cycle nor the backoff submitter is modelled in
\* detail while the scheduler runs.
NoOthers ==
    /\ NoCycle
    /\ backoff = NoBackoff
    /\ requests = <<>>
    /\ call = NoCall

NoDecision == [kind |-> "none", base_flow |-> 0, quote_flow |-> 0]

\* What a call of evaluate_position can come to (position.rs 30-67): a Stop
\* or an UpdateFlows decision, Err(_) for a failed read (`?` at 36, 37), or a
\* panic in the reconciliation.
Evaluations ==
    {[kind |-> "Stop", base_flow |-> 0, quote_flow |-> 0]} \cup
    [kind : {"UpdateFlows"}, base_flow : {0, MaxDecidedFlow}, quote_flow : {1}] \cup
    {[kind |-> "Err", base_flow |-> 0, quote_flow |-> 0],
     [kind |-> "panic", base_flow |-> 0, quote_flow |-> 0]}

\* What execute_stop_position can come to (public_stop_liquidity_position.rs
\* 106-125): the stop is sent, sending fails (`?` at 122), or a read made
\* while the instruction is built fails and its unwrap() panics (24-27, 49-54).
StopOutcomes == {"ok", "err", "read_failed"}

\* What execute_update_flows can come to: the update is committed or
\* Err(_) is returned.
UpdateOutcomes == {"ok", "err"}

StopRequest == [kind |-> "stop", base_flow_u64 |-> 0, quote_flow_u64 |-> 0]

\* main.rs 74-82 and 233-241: the flows of the decision are passed to
\* execute_update_flows as they are.
UpdateRequest(decision) ==
    [kind |-> "commit", base_flow_u64 |-> decision.base_flow,
     quote_flow_u64 |-> decision.quote_flow]

\* A task that runs no more.
Ended(t) == t.pc \in {"unspawned", "finished", "returned", "panicked", "aborted"}

\* JoinHandle::abort: the task is cancelled at the await it is suspended in;
\* aborting a task that has ended changes nothing.
Abort(t) ==
    IF Ended(t) THEN t ELSE [pc |-> "aborted", action |-> NoDecision, error |-> "none"]

(* the periodic task, main.rs 42-94 *)

\* main.rs 44-51: the program client of this iteration.
PeriodicClient ==
    /\ update_flows_task.pc = "client"
    /\ \/ update_flows_task' = [update_flows_task EXCEPT !.pc = "evaluate", !.error = "none"]
       \/ update_flows_task' = [update_flows_task EXCEPT !.pc = "client_sleep",
                                                          !.error = "client"]
    /\ UNCHANGED <<otherVars, main_loop, tasks, current_task, stream, interrupt, sent>>

\* main.rs 48-49: sleep 5 s, continue.
PeriodicRetry ==
    /\ update_flows_task.pc = "client_sleep"
    /\ update_flows_task' = [update_flows_task EXCEPT !.pc = "client", !.error = "none"]
    /\ UNCHANGED <<otherVars, main_loop, tasks, current_task, stream, interrupt, sent>>

\* The periodic task after its evaluation came to e.
PeriodicAfterEvaluation(t, e) ==
    IF e.kind = "Stop" THEN [t EXCEPT !.pc = "stop", !.action = e]
    ELSE IF e.kind = "UpdateFlows" THEN [t EXCEPT !.pc = "update", !.action = e]
    ELSE IF e.kind = "Err" THEN [t EXCEPT !.pc = "sleep", !.error = "evaluate"]
    ELSE [t EXCEPT !.pc = "panicked", !.error = "panic"]

\* main.rs 53-56, 69, 89.
PeriodicEvaluate ==
    /\ update_flows_task.pc = "evaluate"
    /\ \E e \in Evaluations :
         update_flows_task' = PeriodicAfterEvaluation(update_flows_task, e)
    /\ UNCHANGED <<otherVars, main_loop, tasks, current_task, stream, interrupt, sent>>

\* A failed stop submission sends the loop to its next iteration.
PeriodicAfterStop_Retries(t, outcome) ==
    IF outcome = "ok" THEN [t EXCEPT !.pc = "returned"]
    ELSE IF outcome = "err" THEN [t EXCEPT !.pc = "sleep", !.error = "submit"]
    ELSE [t EXCEPT !.pc = "panicked", !.error = "build_read"]

\* main.rs 57-67: the error of a failed stop is printed and the task
\* returns; a panic inside execute_stop_position ends the task.
PeriodicAfterStop(t, outcome) ==
    IF outcome = "ok" THEN [t EXCEPT !.pc = "returned"]
    ELSE IF outcome = "err" THEN [t EXCEPT !.pc = "returned", !.error = "submit"]
    ELSE [t EXCEPT !.pc = "panicked", !.error = "build_read"]

PeriodicStop ==
    /\ update_flows_task.pc = "stop"
    /\ \E outcome \in StopOutcomes :
         /\ update_flows_task' = PeriodicAfterStop(update_flows_task, outcome)
         /\ sent' = IF outcome = "ok" THEN sent \cup {StopRequest} ELSE sent
    /\ UNCHANGED <<otherVars, main_loop, tasks, current_task, stream, interrupt>>

\* main.rs 74-87.
PeriodicUpdate ==
    /\ update_flows_task.pc = "update"
    /\ \E outcome \in UpdateOutcomes :
         /\ update_flows_task' =
               [update_flows_task EXCEPT !.pc = "sleep",
                                         !.action = NoDecision,
                                         !.error = IF outcome = "ok" THEN "none" ELSE "submit"]
         /\ sent' = IF outcome = "ok"
                    THEN sent \cup {UpdateRequest(update_flows_task.action)}
                    ELSE sent
    /\ UNCHANGED <<otherVars, main_loop, tasks, current_task, stream, interrupt>>

\* main.rs 92: sleep 5 min, then the next iteration.
PeriodicSleep ==
    /\ update_flows_task.pc = "sleep"
    /\ update_flows_task' = [update_flows_task EXCEPT !.pc = "client", !.error = "none"]
    /\ UNCHANGED <<otherVars, main_loop, tasks, current_task, stream, interrupt, sent>>

(* a scheduled reactive task, main.rs 201-249 *)

\* The task's future has completed.
Finished == [pc |-> "finished", action |-> NoDecision, error |-> "none"]

\* main.rs 202-210: the delay is over; without a program client the task ends.
TaskWake(id) ==
    /\ tasks[id].pc = "delay"
    /\ \/ tasks' = [tasks EXCEPT ![id].pc = "evaluate"]
       \/ tasks' = [tasks EXCEPT ![id] = Finished]
    /\ UNCHANGED <<otherVars, main_loop, update_flows_task, current_task, stream,
                   interrupt, sent>>

\* main.rs 212-216, 228, 247: the task evaluates anew.
TaskEvaluate(id) ==
    /\ tasks[id].pc = "evaluate"
    /\ \E e \in Evaluations :
         tasks' = [tasks EXCEPT ![id] =
                      IF e.kind = "Stop"
                      THEN [pc |-> "stop", action |-> e, error |-> "none"]
                      ELSE IF e.kind = "UpdateFlows"
                      THEN [pc |-> "update", action |-> e, error |-> "none"]
                      ELSE Finished]
    /\ UNCHANGED <<otherVars, main_loop, update_flows_task, current_task, stream,
                   interrupt, sent>>

\* A mutant of TaskStop: a stop submitted by a scheduled task ends the agent.
TaskStop_ShutsDown(id) ==
    /\ tasks[id].pc = "stop"
    /\ \E outcome \in StopOutcomes :
         /\ main_loop' = [main_loop EXCEPT !.pc = "exited"]
         /\ tasks' = [j \in DOMAIN tasks |-> IF j = id THEN Finished ELSE Abort(tasks[j])]
         /\ current_task' = 0
         /\ update_flows_task' = Abort(update_flows_task)
         /\ sent' = IF outcome = "ok" THEN sent \cup {StopRequest} ELSE sent
    /\ UNCHANGED <<otherVars, stream, interrupt>>

\* main.rs 217-227.
TaskStop(id) ==
    /\ tasks[id].pc = "stop"
    /\ \E outcome \in StopOutcomes :
         /\ tasks' = [tasks EXCEPT ![id] = Finished]
         /\ sent' = IF outcome = "ok" THEN sent \cup {StopRequest} ELSE sent
    /\ UNCHANGED <<otherVars, main_loop, update_flows_task, current_task, stream, interrupt>>

\* main.rs 233-245.
TaskUpdate(id) ==
    /\ tasks[id].pc = "update"
    /\ \E outcome \in UpdateOutcomes :
         /\ tasks' = [tasks EXCEPT ![id] = Finished]
         /\ sent' = IF outcome = "ok"
                    THEN sent \cup {UpdateRequest(tasks[id].action)}
                    ELSE sent
    /\ UNCHANGED <<otherVars, main_loop, update_flows_task, current_task, stream, interrupt>>

(* the main loop, main.rs 107-264 *)

\* The handle is taken out of current_task and dropped without an abort.
AbortCurrent_TakesOnly(ts, cur) == ts

\* main.rs 127-129, 168-170, 259-261: current_task.take() and abort().
AbortCurrent(ts, cur) ==
    [id \in DOMAIN ts |-> IF id = cur THEN Abort(ts[id]) ELSE ts[id]]

\* The main loop is left without the scheduled tasks being cancelled.
Shutdown_LeavesScheduled ==
    /\ main_loop' = [main_loop EXCEPT !.pc = "exited"]
    /\ tasks' = tasks
    /\ current_task' = 0
    /\ update_flows_task' = Abort(update_flows_task)

\* main.rs 258-264 and the end of #[tokio::main]: current_task and the
\* periodic task are aborted, main returns and the runtime drops what is left.
Shutdown ==
    /\ main_loop' = [main_loop EXCEPT !.pc = "exited"]
    /\ tasks' = [id \in DOMAIN tasks |-> Abort(tasks[id])]
    /\ current_task' = 0
    /\ update_flows_task' = Abort(update_flows_task)

\* main.rs 111-114.
MainCtrlC ==
    /\ main_loop.pc = "select"
    /\ interrupt
    /\ Shutdown
    /\ UNCHANGED <<otherVars, stream, interrupt, sent>>

\* main.rs 115-122: the periodic task has returned or panicked.
MainPeriodicDone ==
    /\ main_loop.pc = "select"
    /\ update_flows_task.pc \in {"returned", "panicked"}
    /\ Shutdown
    /\ UNCHANGED <<otherVars, stream, interrupt, sent>>

\* main.rs 123, 168-181: a notification is received; the scheduled task is
\* aborted; without a program client the loop goes on (continue).
MainRecvEvent ==
    /\ main_loop.pc = "select"
    /\ stream.queued > 0
    /\ stream' = [stream EXCEPT !.queued = stream.queued - 1]
    /\ tasks' = AbortCurrent(tasks, current_task)
    /\ current_task' = 0
    /\ \/ main_loop' = [main_loop EXCEPT !.pc = "evaluate"]
       \/ main_loop' = main_loop
    /\ UNCHANGED <<otherVars, update_flows_task, interrupt, sent>>

\* main.rs 124-133: the channel is closed and empty.
MainRecvClosed ==
    /\ main_loop.pc = "select"
    /\ stream.queued = 0
    /\ ~stream.open
    /\ tasks' = AbortCurrent(tasks, current_task)
    /\ current_task' = 0
    /\ main_loop' = [main_loop EXCEPT !.pc = "resubscribe"]
    /\ UNCHANGED <<otherVars, update_flows_task, stream, interrupt, sent>>

\* A failed attempt to resubscribe ends the agent.
AfterSubscribeError_Exits(m) == [m EXCEPT !.pc = "exited"]

\* main.rs 138-142, 158-161: the error is printed and the attempt is
\* repeated after 5 s.
AfterSubscribeError(m) == [m EXCEPT !.pc = "retry_sleep"]

\* main.rs 135-163: one attempt to resubscribe.
MainResubscribe ==
    /\ main_loop.pc = "resubscribe"
    /\ \/ /\ main_loop' = AfterSubscribeError(main_loop)
          /\ UNCHANGED stream
       \/ /\ main_loop' = [main_loop EXCEPT !.pc = "select"]
          /\ stream' = [stream EXCEPT !.open = TRUE, !.queued = 0,
                                      !.generation = stream.generation + 1]
    /\ UNCHANGED <<otherVars, update_flows_task, tasks, current_task, interrupt, sent>>

\* A mutant of MainRetry: the retry delay is left on a pending interrupt.
MainRetry_Interruptible ==
    /\ main_loop.pc = "retry_sleep"
    /\ IF interrupt
       THEN Shutdown
       ELSE /\ main_loop' = [main_loop EXCEPT !.pc = "resubscribe"]
            /\ UNCHANGED <<update_flows_task, tasks, current_task>>
    /\ UNCHANGED <<otherVars, stream, interrupt, sent>>

\* main.rs 140, 160: sleep 5 s.
MainRetry ==
    /\ main_loop.pc = "retry_sleep"
    /\ main_loop' = [main_loop EXCEPT !.pc = "resubscribe"]
    /\ UNCHANGED <<otherVars, update_flows_task, tasks, current_task, stream, interrupt, sent>>

\* The id the next spawned task gets.
NextTaskId == CHOOSE id \in DOMAIN tasks :
                 /\ tasks[id].pc = "unspawned"
                 /\ \A j \in DOMAIN tasks : j < id => tasks[j].pc # "unspawned"

\* main.rs 183-253: the evaluation made for the notification; UpdateFlows
\* spawns the delayed task and stores its handle, a panic ends the process.
MainEvaluate ==
    /\ main_loop.pc = "evaluate"
    /\ \E e \in Evaluations :
         IF e.kind = "Stop"
         THEN /\ main_loop' = [main_loop EXCEPT !.pc = "stop", !.action = e]
              /\ UNCHANGED <<tasks, current_task, update_flows_task>>
         ELSE IF e.kind = "UpdateFlows"
         THEN /\ main_loop' = [main_loop EXCEPT !.pc = "select"]
              /\ tasks' = [tasks EXCEPT ![NextTaskId] =
                              [pc |-> "delay", action |-> NoDecision, error |-> "none"]]
              /\ current_task' = NextTaskId
              /\ UNCHANGED update_flows_task
         ELSE IF e.kind = "Err"
         THEN /\ main_loop' = [main_loop EXCEPT !.pc = "select"]
              /\ UNCHANGED <<tasks, current_task, update_flows_task>>
         ELSE Shutdown
    /\ UNCHANGED <<otherVars, stream, interrupt, sent>>

\* The loop goes on when the stop could not be submitted.
MainAfterStop_GoesOnAfterError(m, outcome) ==
    IF outcome = "ok" THEN [m EXCEPT !.pc = "exited"] ELSE [m EXCEPT !.pc = "select"]

\* main.rs 185-192: whatever the stop came to, break (a panic ends main too).
MainAfterStop(m, outcome) == [m EXCEPT !.pc = "exited"]

MainStop ==
    /\ main_loop.pc = "stop"
    /\ \E outcome \in StopOutcomes :
         /\ sent' = IF outcome = "ok" THEN sent \cup {StopRequest} ELSE sent
         /\ IF MainAfterStop(main_loop, outcome).pc = "exited"
            THEN Shutdown
            ELSE /\ main_loop' = MainAfterStop(main_loop, outcome)
                 /\ UNCHANGED <<tasks, current_task, update_flows_task>>
    /\ UNCHANGED <<otherVars, stream, interrupt>>

(* the environment *)

Running == main_loop.pc # "exited"

\* A MarketUpdateEvent is delivered to the subscription's callback (main.rs
\* 101-103, 147-149).
Notify ==
    /\ Running
    /\ stream.open
    /\ stream.notified < MaxNotifications
    /\ stream' = [stream EXCEPT !.queued = stream.queued + 1,
                                !.notified = stream.notified + 1]
    /\ UNCHANGED <<otherVars, main_loop, update_flows_task, tasks, current_task,
                   interrupt, sent>>

\* The event stream ends and the callback, with its sender, is dropped.
StreamClose ==
    /\ Running
    /\ stream.open
    /\ stream.generation < MaxStreams
    /\ stream' = [stream EXCEPT !.open = FALSE]
    /\ UNCHANGED <<otherVars, main_loop, update_flows_task, tasks, current_task,
                   interrupt, sent>>

\* The operator interrupts the process.
Interrupt ==
    /\ Running
    /\ ~interrupt
    /\ interrupt' = TRUE
    /\ UNCHANGED <<otherVars, main_loop, update_flows_task, tasks, current_task,
                   stream, sent>>

\* main.rs 42, 98-107: the periodic task is spawned, the first subscription
\* made, no reactive task scheduled.
InitAgent ==
    /\ NoOthers
    /\ main_loop = [pc |-> "select", action |-> NoDecision]
    /\ update_flows_task = [pc |-> "client", action |-> NoDecision, error |-> "none"]
    /\ tasks = [id \in 1 .. MaxNotifications |->
                   [pc |-> "unspawned", action |-> NoDecision, error |-> "none"]]
    /\ current_task = 0
    /\ stream = [open |-> TRUE, queued |-> 0, generation |-> 1, notified |-> 0]
    /\ interrupt = FALSE
    /\ sent = {}

NextAgent ==
    \/ PeriodicClient
    \/ PeriodicRetry
    \/ PeriodicEvaluate
    \/ PeriodicStop
    \/ PeriodicUpdate
    \/ PeriodicSleep
    \/ \E id \in DOMAIN tasks : TaskWake(id)
    \/ \E id \in DOMAIN tasks : TaskEvaluate(id)
    \/ \E id \in DOMAIN tasks : TaskStop(id)
    \/ \E id \in DOMAIN tasks : TaskUpdate(id)
    \/ MainCtrlC
    \/ MainPeriodicDone
    \/ MainRecvEvent
    \/ MainRecvClosed
    \/ MainResubscribe
    \/ MainRetry
    \/ MainEvaluate
    \/ MainStop
    \/ Notify
    \/ StreamClose
    \/ Interrupt

\* The inventory-flow agent: its main loop, its periodic task and its
\* scheduled reactive tasks, with the event stream and the operator.
SpecAgent == InitAgent /\ [][NextAgent]_vars

\* The steps of the periodic task, of the main loop and of the scheduled
\* tasks: the runtime keeps polling each task that can go on.
PeriodicSteps ==
    \/ PeriodicClient
    \/ PeriodicRetry
    \/ PeriodicEvaluate
    \/ PeriodicStop
    \/ PeriodicUpdate
    \/ PeriodicSleep
MainSteps ==
    \/ MainCtrlC
    \/ MainPeriodicDone
    \/ MainRecvEvent
    \/ MainRecvClosed
    \/ MainResubscribe
    \/ MainRetry
    \/ MainEvaluate
    \/ MainStop
TaskSteps ==
    \E id \in DOMAIN tasks : TaskWake(id) \/ TaskEvaluate(id) \/ TaskStop(id) \/ TaskUpdate(id)

\* The agent on a runtime that runs every task that is ready.
SpecAgentLive ==
    /\ SpecAgent
    /\ WF_vars(PeriodicSteps)
    /\ WF_vars(MainSteps)
    /\ WF_vars(TaskSteps)

(* ------------------------------ properties ------------------------------ *)

Returned == pc = "done"

\* inactive_slots of the call's arguments, in exact arithmetic.
InactiveUnits == bookkeeping.slots_without_trade - liquidity_position.slots_without_trade_snapshot

\* Slots in which the position's outflow accrued, in exact arithmetic.
ActiveUnits == current_slot - liquidity_position.last_update_slot - InactiveUnits

\* The inflows of the returned call, in exact arithmetic.
BaseInflow ==
    (integrals.base_per_quote - liquidity_position.base_per_quote_snapshot)
        * liquidity_position.quote_flow_u64
QuoteInflow ==
    (integrals.quote_per_base - liquidity_position.quote_per_base_snapshot)
        * liquidity_position.base_flow_u64

\* C1: in every result of the reconciliation, on the base side and on the
\* quote side at most one of balance and debt is nonzero.
C1_BalanceDebtExclusive ==
    Returned => /\ balances.base_balance * balances.base_debt = 0
                /\ balances.quote_balance * balances.quote_debt = 0

\* A result with a base debt and a quote balance.
C1_Witness ==
    Returned /\ balances.base_debt > 0 /\ balances.quote_balance > 0

\* The per-side rule of the claim, in exact arithmetic.
SideRule(stored, inflow, out, balance, debt) ==
    IF out <= stored + inflow
    THEN /\ balance = (stored + inflow - out) \div BOOKKEEPING_PRECISION_FACTOR
         /\ debt = 0
    ELSE /\ balance = 0
         /\ debt = (out - stored - inflow) \div BOOKKEEPING_PRECISION_FACTOR

\* C2: per side, with inflow = (reconstructed integral - snapshot) x the
\* position's flow on the other side: outflow <= stored + inflow gives
\* balance = (stored + inflow - outflow) / precision and debt 0, otherwise
\* balance 0 and debt = (outflow - stored - inflow) / precision.
C2_SettlementRule ==
    Returned =>
        /\ SideRule(liquidity_position.base_balance, BaseInflow, outflow.base,
                    balances.base_balance, balances.base_debt)
        /\ SideRule(liquidity_position.quote_balance, QuoteInflow, outflow.quote,
                    balances.quote_balance, balances.quote_debt)

\* A result whose base side has an inflow and a balance left and whose
\* quote side has an inflow and ends in debt.
C2_Witness ==
    /\ Returned
    /\ BaseInflow > 0 /\ outflow.base > 0 /\ balances.base_balance > 0
    /\ QuoteInflow > 0 /\ balances.quote_debt > 0

\* C3: the outflow charged on each side is precision x (current slot - the
\* position's last update slot - inactive slots) x that side's flow, the
\* inactive slots being the bookkeeping's counter minus the snapshot.
C3_OutflowClosedForm ==
    pc \notin {"outflow", "panicked"} =>
        /\ outflow.base = BOOKKEEPING_PRECISION_FACTOR * ActiveUnits
                              * liquidity_position.base_flow_u64
        /\ outflow.quote = BOOKKEEPING_PRECISION_FACTOR * ActiveUnits
                               * liquidity_position.quote_flow_u64

\* A result for a position through whose life the market was inactive for a
\* while, charged a base and a quote outflow.
C3_Witness ==
    /\ Returned
    /\ InactiveUnits > 0
    /\ outflow.base > 0 /\ outflow.quote > 0

\* The slot of the step the walk is at.
StepSlot == walk.i * market.end_slot_interval + WindowBase(walk.exits_index, market)

\* What a segment of d slots adds to the integral `which` at running flows
\* b and q, in exact arithmetic: nothing when a flow is zero.
SegmentIncrement(which, b, q, d) ==
    IF b = 0 \/ q = 0 THEN 0
    ELSE IF which = "bpq" THEN ((BOOKKEEPING_PRECISION_FACTOR * b) \div q) * d
    ELSE ((BOOKKEEPING_PRECISION_FACTOR * q) \div b) * d

\* The step from this state to the next is one visited step of a walk.
StepVisited ==
    /\ pc = "walk" /\ walk.phase = "steps" /\ walk.i <= walk.end_index
    /\ pc' = "walk" /\ walk'.i = walk.i + 1

\* The visited step integrates the segment that ends at it at the running
\* flows it found.
StepIntegratesBeforeExit ==
    walk'.integral = walk.integral
        + SegmentIncrement(walk.which, walk.market_base_flow, walk.market_quote_flow,
                           StepSlot - walk.last_update_slot)

\* The visited step subtracts its recorded exits from the running flows.
StepSubtractsExits ==
    /\ walk'.market_base_flow
         = walk.market_base_flow - ExitAmount(walk.exits_account, "base", walk.i)
    /\ walk'.market_quote_flow
         = walk.market_quote_flow - ExitAmount(walk.exits_account, "quote", walk.i)

\* C4 as stated: at every visited step of either walk the segment ending at
\* the step is integrated at the running flows before the step's exit, and
\* then the step's base and quote exits are subtracted from the running flows.
C4_ExitsSubtractedAtEveryStep ==
    [][StepVisited => StepIntegratesBeforeExit /\ StepSubtractsExits]_vars

\* C4 amended: at every visited step of either walk the segment ending at
\* the step is integrated at the running flows before the step's exit; the
\* step's exits are then subtracted when both running flows are nonzero, and
\* at a step where a running flow is zero both running flows stay as they are.
C4_ExitsSubtractedAtLiveSteps ==
    [][StepVisited =>
         /\ StepIntegratesBeforeExit
         /\ IF walk.market_base_flow # 0 /\ walk.market_quote_flow # 0
            THEN StepSubtractsExits
            ELSE /\ walk'.market_base_flow = walk.market_base_flow
                 /\ walk'.market_quote_flow = walk.market_quote_flow]_vars

\* A walk past a step whose base exit lowered the running base flow after
\* the segment before it was integrated.
C4_Witness ==
    /\ pc = "walk"
    /\ walk.market_base_flow < market.base_flow
    /\ walk.market_quote_flow > 0
    /\ walk.integral > (IF walk.which = "bpq" THEN bookkeeping.base_per_quote
                        ELSE bookkeeping.quote_per_base)

\* The walk is at a step or at the final partial segment with a running
\* flow of zero.
AtZeroFlowSegment ==
    /\ pc = "walk" /\ walk.phase = "steps"
    /\ walk.market_base_flow = 0 \/ walk.market_quote_flow = 0

\* C5: a step or final partial segment at which a running flow is zero adds
\* nothing to the integral of either walk, and no step divides by zero.
C5_ZeroFlowAddsNothing ==
    [][/\ fault' # "div_by_zero"
       /\ AtZeroFlowSegment => pc' = "walk" /\ walk'.integral = walk.integral]_vars

\* A walk that passed a segment after an exit had taken the running base
\* flow to zero.
C5_Witness ==
    /\ pc = "walk" /\ walk.phase = "window"
    /\ market.base_flow > 0 /\ walk.market_base_flow = 0
    /\ walk.last_update_slot = current_slot
    /\ current_slot > bookkeeping.last_update_slot + 1

\* The windows the walk visits for the call's arguments.
WalkedWindows ==
    WindowIndex(bookkeeping.last_update_slot, market) .. WindowIndex(current_slot, market)

\* The journals with every account that does not exist replaced by an
\* account whose exit amounts are all zero.
ZeroFilled(ex) ==
    [w \in DOMAIN ex |->
       IF ex[w].ok THEN ex[w]
       ELSE [ok |-> TRUE, base_exits |-> NoExits, quote_exits |-> NoExits]]

\* The struct the call returns for integrals ints.
ResultFor(ints) ==
    LET r == Settle(liquidity_position, outflow, ints)
    IN  [base_balance |-> r.base_balance, quote_balance |-> r.quote_balance,
         base_debt |-> r.base_debt, quote_debt |-> r.quote_debt]

\* C6: a window whose exits account cannot be read does not make the call
\* fail, and the call returns the balances and debts it returns when that
\* account exists with every exit amount zero.
C6_MissingJournalIsZero ==
    /\ pc # "panicked"
    /\ Returned =>
         LET ex0 == ZeroFilled(exits)
             bpq == Reconstruct("bpq", bookkeeping, market, ex0, current_slot)
             qpb == Reconstruct("qpb", bookkeeping, market, ex0, current_slot)
         IN  /\ integrals = [base_per_quote |-> bpq.integral, quote_per_base |-> qpb.integral]
             /\ balances = ResultFor([base_per_quote |-> bpq.integral,
                                      quote_per_base |-> qpb.integral])

\* A result of a walk that visited a window whose account does not exist
\* after a window with a recorded exit.
C6_Witness ==
    /\ Returned
    /\ \E w \in WalkedWindows, v \in WalkedWindows :
         /\ v < w
         /\ ~exits[w].ok
         /\ exits[v].ok
         /\ \E i \in Steps : exits[v].base_exits[i] > 0 \/ exits[v].quote_exits[i] > 0

\* No exit is recorded in a window the walk visits.
NoExitRecorded ==
    \A w \in WalkedWindows :
      exits[w].ok => \A i \in Steps : exits[w].base_exits[i] = 0 /\ exits[w].quote_exits[i] = 0

\* C7: with both market flows nonzero and no exit recorded between the
\* checkpoint and the current slot, each reconstructed integral exceeds the
\* checkpoint's stored integral by (precision x flow / other flow) x
\* (current slot - checkpoint slot), whatever steps and windows lie between.
C7_NoExitClosedForm ==
    (Returned /\ NoExitRecorded /\ market.base_flow > 0 /\ market.quote_flow > 0) =>
        /\ integrals.base_per_quote - bookkeeping.base_per_quote
             = ((BOOKKEEPING_PRECISION_FACTOR * market.base_flow) \div market.quote_flow)
                 * (current_slot - bookkeeping.last_update_slot)
        /\ integrals.quote_per_base - bookkeeping.quote_per_base
             = ((BOOKKEEPING_PRECISION_FACTOR * market.quote_flow) \div market.base_flow)
                 * (current_slot - bookkeeping.last_update_slot)

\* A result of a walk over more than one window from a checkpoint that is
\* on no step to a current slot that is on no step, with unequal flows.
C7_Witness ==
    /\ Returned /\ NoExitRecorded
    /\ market.base_flow > market.quote_flow /\ market.quote_flow > 0
    /\ WindowIndex(current_slot, market) >= WindowIndex(bookkeeping.last_update_slot, market) + 1
    /\ bookkeeping.last_update_slot % market.end_slot_interval # 0
    /\ current_slot % market.end_slot_interval # 0

\* C8: for a fixed checkpoint, market and journals each reconstructed
\* integral at an earlier current slot is at most the one at a later current
\* slot, and at least the checkpoint's stored integral.
C8_IntegralsMonotone ==
    Returned =>
        \A t \in bookkeeping.last_update_slot .. current_slot :
          LET bpq == Reconstruct("bpq", bookkeeping, market, exits, t)
              qpb == Reconstruct("qpb", bookkeeping, market, exits, t)
          IN  /\ bookkeeping.base_per_quote <= bpq.integral
              /\ bpq.integral <= integrals.base_per_quote
              /\ bookkeeping.quote_per_base <= qpb.integral
              /\ qpb.integral <= integrals.quote_per_base

\* A result at a current slot past a recorded exit that took a running flow
\* to zero, the integrals having grown before it.
C8_Witness ==
    /\ Returned
    /\ integrals.base_per_quote > bookkeeping.base_per_quote
    /\ integrals.quote_per_base > bookkeeping.quote_per_base
    /\ market.base_flow > 0 /\ walk.market_base_flow = 0
    /\ current_slot >= bookkeeping.last_update_slot + 3

\* The arguments of scenario A: stored base balance 10 units, base flow 2,
\* 5 slots elapsed, no inactive slot, no base inflow.
ScenarioA ==
    /\ liquidity_position.base_balance = 10 * BOOKKEEPING_PRECISION_FACTOR
    /\ liquidity_position.base_flow_u64 = 2
    /\ current_slot - liquidity_position.last_update_slot = 5
    /\ InactiveUnits = 0
    /\ BaseInflow = 0

\* C10: scenario A is charged a base outflow of 10 x precision and returns
\* base balance 0 and base debt 0.
C10_ScenarioA ==
    (Returned /\ ScenarioA) =>
        /\ outflow.base = 10 * BOOKKEEPING_PRECISION_FACTOR
        /\ balances.base_balance = 0
        /\ balances.base_debt = 0

\* A result for the arguments of scenario A.
C10_Witness ==
    Returned /\ ScenarioA

\* C9 as stated: no arithmetic step of the reconciliation wraps, underflows
\* or loses value, for any accounts and slot the agent reads.
C9_NoArithmeticWraps ==
    ~wrapped /\ fault # "overflow"

\* The arguments of scenario B: those of scenario A with base flow 3.
ScenarioB ==
    /\ liquidity_position.base_balance = 10 * BOOKKEEPING_PRECISION_FACTOR
    /\ liquidity_position.base_flow_u64 = 3
    /\ current_slot - liquidity_position.last_update_slot = 5
    /\ InactiveUnits = 0
    /\ BaseInflow = 0

\* C11 as stated: scenario B returns base balance 0 and a base debt of 1 unit.
C11_ScenarioB_DebtOne ==
    (Returned /\ ScenarioB) =>
        /\ balances.base_balance = 0
        /\ balances.base_debt = 1

\* C11: scenario B is charged 15 x precision against a stored 10 x precision
\* and returns base balance 0 and a base debt of 5 units, the whole shortfall.
C11_ScenarioB ==
    (Returned /\ ScenarioB) =>
        /\ outflow.base = 15 * BOOKKEEPING_PRECISION_FACTOR
        /\ balances.base_balance = 0
        /\ balances.base_debt = 5

\* A result for the arguments of scenario B.
C11_Witness ==
    Returned /\ ScenarioB /\ balances.base_debt > 0

\* The evaluation returned its decision.
Decided == pc = "decided"

\* C12: evaluate_position decides Stop exactly when a returned debt is
\* nonzero, and otherwise UpdateFlows with each balance divided (integer
\* division) by flow_divisor; both carry the window index of the slot read,
\* current_slot / ARRAY_LENGTH / end_slot_interval.
C12_Decision ==
    Decided =>
        /\ action.kind \in {"Stop", "UpdateFlows"}
        /\ (action.kind = "Stop") <=> (balances.base_debt # 0 \/ balances.quote_debt # 0)
        /\ action.kind = "UpdateFlows" =>
              /\ action.flow_divisor > 0
              /\ action.base_flow * action.flow_divisor <= balances.base_balance
              /\ balances.base_balance < (action.base_flow + 1) * action.flow_divisor
              /\ action.quote_flow * action.flow_divisor <= balances.quote_balance
              /\ balances.quote_balance < (action.quote_flow + 1) * action.flow_divisor
        /\ action.reference_index * ARRAY_LENGTH * market.end_slot_interval <= current_slot
        /\ current_slot < (action.reference_index + 1) * ARRAY_LENGTH * market.end_slot_interval

\* A Stop decided for a debt on one side only, past the first window.
C12_Witness ==
    /\ Decided
    /\ action.kind = "Stop"
    /\ balances.base_debt > 0 /\ balances.quote_debt = 0
    /\ action.reference_index > 0

\* The cycle has done its four reads.
ReadsDone == pc \notin {"fetch_market", "fetch_bookkeeping", "fetch_slot", "fetch_position"}

\* What holds of the accounts and the slot of any one ledger state: the
\* position was settled no later than the checkpoint, the checkpoint no
\* later than the slot, and no snapshot is ahead of the checkpoint.
OneLedgerState(slot, bk, pos) ==
    /\ pos.last_update_slot <= bk.last_update_slot
    /\ bk.last_update_slot <= slot
    /\ pos.slots_without_trade_snapshot <= bk.slots_without_trade
    /\ pos.base_per_quote_snapshot <= bk.base_per_quote
    /\ pos.quote_per_base_snapshot <= bk.quote_per_base

\* C13 as stated: the values a cycle uses together are those of one ledger
\* state, whatever is committed between the cycle's reads; in particular the
\* position used was never settled later than the slot used.
C13_SingleSnapshot ==
    ReadsDone => OneLedgerState(current_slot, bookkeeping, liquidity_position)

\* The positions of the commits among the submitter's requests.
Commits == {i \in DOMAIN requests : requests[i].kind = "commit"}

\* C15: every commit the backoff submitter sends directly follows a
\* simulation of the same base flow, quote flow and window index that
\* reported no error; a call sends at most one commit; a successful call
\* returns exactly the flows it committed.
C15_CommitFollowsCleanSimulation ==
    /\ \A i \in Commits :
         /\ i > 1
         /\ requests[i - 1].kind = "simulate"
         /\ requests[i - 1].err = "none"
         /\ requests[i - 1].base_flow_u64 = requests[i].base_flow_u64
         /\ requests[i - 1].quote_flow_u64 = requests[i].quote_flow_u64
         /\ requests[i - 1].reference_index = requests[i].reference_index
    /\ Cardinality(Commits) <= 1
    /\ (backoff.pc = "returned" /\ backoff.result.ok) =>
          /\ Commits = {Len(requests)}
          /\ requests[Len(requests)].err = "none"
          /\ backoff.result.base_flow = requests[Len(requests)].base_flow_u64
          /\ backoff.result.quote_flow = requests[Len(requests)].quote_flow_u64

\* A call that succeeded after shrinking its candidates.
C15_Witness ==
    /\ backoff.pc = "returned"
    /\ backoff.result.ok
    /\ backoff.attempt > 0
    /\ backoff.result.base_flow < backoff.base_flow

\* The scheduled reactive tasks that can still run.
LiveTasks == {id \in DOMAIN tasks : ~Ended(tasks[id])}

\* The main loop is handling a notification: evaluating for it or submitting
\* the stop it decided.
HandlingNotification == main_loop.pc \in {"evaluate", "stop"}

\* C14: at most one scheduled reactive task can still run at any moment, and
\* it is the one current_task holds; while the evaluation made for a
\* notification runs, none can (the earlier one was aborted first); the step
\* that takes a notification leaves no earlier task able to run; an aborted
\* task takes no step afterwards.
C14_SingleFlight ==
    /\ [](/\ Cardinality(LiveTasks) <= 1
          /\ LiveTasks \subseteq {current_task}
          /\ HandlingNotification => LiveTasks = {})
    /\ [][/\ stream'.queued < stream.queued => \A id \in DOMAIN tasks : Ended(tasks'[id])
          /\ \A id \in DOMAIN tasks :
                tasks[id].pc = "aborted" => tasks'[id] = tasks[id]]_vars

\* A second notification has aborted the task scheduled for the first while
\* it was still in its delay, and has scheduled its own.
C14_Witness ==
    /\ tasks[1].pc = "aborted"
    /\ tasks[2].pc = "delay"
    /\ current_task = 2

\* C16 as stated: every update the agent's cadences commit was floored at 1
\* and simulated before it was committed.
C16_UpdatesGoThroughBackoff ==
    \A r \in sent :
        r.kind = "commit" =>
            /\ r.base_flow_u64 >= 1
            /\ r.quote_flow_u64 >= 1
            /\ [r EXCEPT !.kind = "simulate"] \in sent

\* C17: the periodic task leaves a decided Stop by one call of
\* execute_stop_position and then has ended, taking no further step; it
\* leaves a decided UpdateFlows, submitted or failed, for the interval sleep,
\* the sleep for the next iteration, and the iteration's client for the next
\* evaluation (or the 5 s retry), unless the agent shuts down meanwhile.
C17_PeriodicCadence ==
    [][/\ update_flows_task.pc = "stop" =>
             /\ update_flows_task'.pc \in {"returned", "panicked", "aborted"}
             /\ sent' \subseteq sent \cup {StopRequest}
       /\ update_flows_task.pc \in {"returned", "panicked", "aborted"} => FALSE
       /\ update_flows_task.pc = "update" => update_flows_task'.pc \in {"sleep", "aborted"}
       /\ update_flows_task.pc = "sleep" => update_flows_task'.pc \in {"client", "aborted"}
       /\ update_flows_task.pc = "client_sleep" =>
             update_flows_task'.pc \in {"client", "aborted"}
       /\ update_flows_task.pc = "client" =>
             update_flows_task'.pc \in {"evaluate", "client_sleep", "aborted"}
       /\ update_flows_task'.pc = "evaluate" => update_flows_task.pc = "client"
      ]_update_flows_task

\* The periodic task decides Stop in an iteration after one in which it
\* submitted an update, no reactive task having run.
C17_Witness ==
    /\ update_flows_task.pc = "stop"
    /\ stream.notified = 0
    /\ \E r \in sent : r.kind = "commit"

\* The errors of the periodic task that come from the infrastructure.
TransientErrors == {"client", "evaluate", "submit", "build_read"}

\* C18 as stated: after any transient infrastructure error the periodic task
\* is on its way to another evaluation.
C18_TransientErrorsKeepLoop ==
    update_flows_task.error \in TransientErrors =>
        update_flows_task.pc \in {"client_sleep", "sleep"}

\* C19: a Stop decided for a notification is submitted by the main loop
\* itself, no delayed task being scheduled for it, and whatever the
\* submission comes to the agent has shut down with that step: the main loop
\* has exited, every task has ended, and nothing is evaluated or sent after.
C19_ReactiveStopShutsDown ==
    /\ [](main_loop.pc = "exited" =>
             /\ LiveTasks = {}
             /\ Ended(update_flows_task))
    /\ [][/\ (main_loop.pc = "stop" /\ main_loop' # main_loop) =>
                /\ main_loop'.pc = "exited"
                /\ sent' \subseteq sent \cup {StopRequest}
          /\ (main_loop.pc = "evaluate" /\ main_loop'.pc = "stop") =>
                /\ UNCHANGED <<tasks, current_task>>
                /\ LiveTasks = {}
          /\ main_loop.pc = "exited" => UNCHANGED <<tasks, update_flows_task, sent>>]_vars

\* The agent has shut down on a Stop decided for a notification, its stop
\* sent, the periodic task cancelled in the middle of its loop.
C19_Witness ==
    /\ main_loop.pc = "exited"
    /\ main_loop.action.kind = "Stop"
    /\ StopRequest \in sent
    /\ update_flows_task.pc = "aborted"

\* The main loop is in its resubscription loop.
Resubscribing == main_loop.pc \in {"resubscribe", "retry_sleep"}

\* C20: when the channel is found closed the scheduled task is aborted and
\* the main loop enters the resubscription loop; it leaves that loop only
\* for the main loop, with a new open stream, and a failed attempt is only
\* followed by the retry delay and another attempt, never by an exit.
C20_Resubscribes ==
    [][/\ (main_loop.pc = "select" /\ ~stream.open /\ stream.queued = 0
              /\ main_loop'.pc # "exited") =>
             /\ main_loop'.pc = "resubscribe"
             /\ \A id \in DOMAIN tasks : Ended(tasks'[id])
             /\ current_task' = 0
       /\ main_loop.pc = "resubscribe" => main_loop'.pc \in {"retry_sleep", "select"}
       /\ main_loop.pc = "retry_sleep" => main_loop'.pc = "resubscribe"
       /\ (Resubscribing /\ main_loop'.pc = "select") =>
             /\ stream'.open
             /\ stream'.queued = 0
             /\ stream'.generation = stream.generation + 1
      ]_main_loop

\* The stream was lost, the agent has resubscribed, and a notification of
\* the second stream is being handled.
C20_Witness ==
    /\ stream.generation = 2
    /\ main_loop.pc = "evaluate"

\* C21: the step in which the main loop acts on a pending operator
\* interrupt cancels the scheduled reactive task and the periodic task and
\* sends nothing; from then on no scheduled task and no periodic iteration
\* takes a step, so an update still in its delay never runs.
C21_InterruptCancelsAll ==
    [][/\ (main_loop.pc = "select" /\ interrupt /\ main_loop'.pc = "exited") =>
             /\ \A id \in DOMAIN tasks : Ended(tasks'[id])
             /\ \A id \in DOMAIN tasks :
                   tasks[id].pc = "delay" => tasks'[id].pc = "aborted"
             /\ Ended(update_flows_task')
             /\ current_task' = 0
             /\ sent' = sent
       /\ (main_loop.pc = "exited" /\ interrupt) =>
             /\ \A id \in DOMAIN tasks : tasks'[id].pc = tasks[id].pc
             /\ update_flows_task'.pc = update_flows_task.pc
             /\ sent' = sent]_vars

\* The operator's interrupt was handled while the task scheduled for the
\* only notification was pending and the periodic task was running: both
\* are cancelled.
C21_Witness ==
    /\ main_loop.pc = "exited"
    /\ interrupt
    /\ stream.notified = 1 /\ stream.open /\ stream.generation = 1
    /\ tasks[1].pc = "aborted"
    /\ update_flows_task.pc = "aborted"

(* --------------------------- the adaptive delay ------------------------- *)

\* inventory-flow/config.rs 22-33: DelayConfig::default().
critical_threshold == 25
safe_threshold == 10000
critical_delay_ms == 100
normal_delay_ms == 2000
delay_scale_factor == 400
max_additional_slots == 1000

\* The width of u64 in calculate_update_delay, wide enough for the default
\* thresholds and delays.
DelayBits == 20
\* The largest flow of a position or a market in a call of the function.
MaxDelayFlow == 2

\* position.rs 94: u64::MAX.
U64_MAX == 2 ^ DelayBits - 1

\* The balances a call is made with: around each threshold, for each
\* net outflow the flows can give.
DelayBalances == {0, 25, 26, 50, 52, 10000, 10001, 11000, 11001, 20002, 22002, 30000}

\* A mutant of Inflows: no inflow is credited to either side.
Inflows_Zero(position, market_state) ==
    [base_inflow |-> 0, quote_inflow |-> 0]

\* position.rs 82-85: what each side receives per slot for what the other
\* side pays out, at the market's flow ratio, floor-divided.
Inflows(position, market_state) ==
    [base_inflow |->
        (position.quote_flow_u64 * market_state.base_flow) \div market_state.quote_flow,
     quote_inflow |->
        (position.base_flow_u64 * market_state.quote_flow) \div market_state.base_flow]

\* position.rs 87-95: slots_until_debt, the base side tried first.
SlotsUntilDebt(position, market_state, bal) ==
    LET base_outflow == position.base_flow_u64
        quote_outflow == position.quote_flow_u64
        base_inflow == Inflows(position, market_state).base_inflow
        quote_inflow == Inflows(position, market_state).quote_inflow
    IN  IF base_outflow > base_inflow
        THEN bal.base_balance \div (base_outflow - base_inflow)
        ELSE IF quote_outflow > quote_inflow
             THEN bal.quote_balance \div (quote_outflow - quote_inflow)
             ELSE U64_MAX

\* A mutant of DelayOf: the thresholds are exclusive.
DelayOf_ExclusiveThresholds(slots_until_debt) ==
    IF slots_until_debt < critical_threshold
    THEN critical_delay_ms
    ELSE IF slots_until_debt < safe_threshold
         THEN normal_delay_ms
         ELSE (Min2(slots_until_debt, safe_threshold + max_additional_slots) - safe_threshold)
                  * delay_scale_factor + normal_delay_ms

\* A mutant of DelayOf: the additional slots are not capped.
DelayOf_Uncapped(slots_until_debt) ==
    IF slots_until_debt <= critical_threshold
    THEN critical_delay_ms
    ELSE IF slots_until_debt <= safe_threshold
         THEN normal_delay_ms
         ELSE (slots_until_debt - safe_threshold) * delay_scale_factor + normal_delay_ms

\* position.rs 99-108: the delay for a number of slots until debt.
DelayOf(slots_until_debt) ==
    IF slots_until_debt <= critical_threshold
    THEN critical_delay_ms
    ELSE IF slots_until_debt <= safe_threshold
         THEN normal_delay_ms
         ELSE (Min2(slots_until_debt, safe_threshold + max_additional_slots) - safe_threshold)
                  * delay_scale_factor + normal_delay_ms

\* position.rs 69-112: calculate_update_delay with the default configuration.
\* A market with a zero aggregate flow returns the normal delay before any
\* time is computed (78-80); the result is narrowed to u64 (111).
calculate_update_delay(position, market_state, bal) ==
    IF market_state.quote_flow = 0 \/ market_state.base_flow = 0
    THEN [computed |-> FALSE, slots_until_debt |-> 0,
          delay |-> normal_delay_ms % (U64_MAX + 1)]
    ELSE LET slots_until_debt == SlotsUntilDebt(position, market_state, bal)
         IN  [computed |-> TRUE, slots_until_debt |-> slots_until_debt,
              delay |-> DelayOf(slots_until_debt) % (U64_MAX + 1)]

\* main.rs 194-199: the function is applied to its arguments.
CalculateUpdateDelay ==
    /\ call.pc = "called"
    /\ call.fn = "calculate_update_delay"
    /\ LET r == calculate_update_delay(call.position, call.market_state, call.balances)
       IN  call' = [call EXCEPT !.pc = "returned",
                                !.computed = r.computed,
                                !.slots_until_debt = r.slots_until_debt,
                                !.delay = r.delay]
    /\ UNCHANGED <<cycleVars, backoff, requests, agentVars>>

\* The function is called with any position flows, market flows and
\* balances.
InitDelay ==
    /\ NoCycle
    /\ NoAgent
    /\ backoff = NoBackoff
    /\ requests = <<>>
    /\ \E base_flow_u64 \in 0 .. MaxDelayFlow, quote_flow_u64 \in 0 .. MaxDelayFlow,
          base_flow \in 0 .. MaxDelayFlow, quote_flow \in 0 .. MaxDelayFlow,
          base_balance \in DelayBalances, quote_balance \in DelayBalances :
         call = [pc |-> "called",
                 fn |-> "calculate_update_delay",
                 position |-> [base_flow_u64 |-> base_flow_u64,
                               quote_flow_u64 |-> quote_flow_u64],
                 market_state |-> [base_flow |-> base_flow, quote_flow |-> quote_flow],
                 balances |-> [base_balance |-> base_balance,
                               quote_balance |-> quote_balance],
                 computed |-> FALSE,
                 slots_until_debt |-> 0,
                 delay |-> 0]

NextDelay == CalculateUpdateDelay

\* One call of calculate_update_delay.
SpecDelay == InitDelay /\ [][NextDelay]_vars

\* The call of calculate_update_delay has returned.
DelayReturned == call.pc = "returned" /\ call.fn = "calculate_update_delay"

\* The floor-divided inflows of the two sides, from the market flow ratio.
BaseInflowRate ==
    (call.position.quote_flow_u64 * call.market_state.base_flow)
        \div call.market_state.quote_flow
QuoteInflowRate ==
    (call.position.base_flow_u64 * call.market_state.quote_flow)
        \div call.market_state.base_flow

\* The delay the reference gives for a time until insolvency.
ReferenceDelay(time) ==
    CASE time <= 25 -> 100
      [] time > 25 /\ time <= 10000 -> 2000
      [] time > 10000 /\ time <= 11000 -> 2000 + (time - 10000) * 400
      [] time > 11000 -> 2000 + 1000 * 400

DelayTimes ==
    {0, 1, critical_threshold - 1, critical_threshold, critical_threshold + 1,
     safe_threshold - 1, safe_threshold, safe_threshold + 1,
     safe_threshold + max_additional_slots - 1, safe_threshold + max_additional_slots,
     safe_threshold + max_additional_slots + 1, U64_MAX}

WithinFloors(base_flow, quote_flow) ==
    /\ base_flow >= 1
    /\ quote_flow >= 1
    /\ base_flow <= (IF backoff.base_flow >= 1 THEN backoff.base_flow ELSE 1)
    /\ quote_flow <= (IF backoff.quote_flow >= 1 THEN backoff.quote_flow ELSE 1)

\* C24: every candidate the backoff submitter simulates or commits has a
\* base flow and a quote flow of at least 1, each at most the requested flow
\* floored at 1, and so have the accepted flows returned on success.
C24_CandidatesWithinFloors ==
    backoff.pc # "idle" =>
        /\ \A i \in DOMAIN requests :
              WithinFloors(requests[i].base_flow_u64, requests[i].quote_flow_u64)
        /\ (backoff.pc = "returned" /\ backoff.result.ok) =>
              WithinFloors(backoff.result.base_flow, backoff.result.quote_flow)

\* A call for a base flow of zero has returned the flows it committed after
\* a shrink: the base flow floored, the quote flow below the requested one.
C24_Witness ==
    /\ backoff.pc = "returned"
    /\ backoff.result.ok
    /\ backoff.base_flow = 0
    /\ backoff.result.base_flow = 1
    /\ backoff.result.quote_flow < backoff.quote_flow
    /\ requests[Len(requests)].kind = "commit"

\* The flows reduce_flow is checked on: the small ones and those around the
\* point where one percent is a whole unit.
ReduceFlows == (0 .. MaxRequestedFlow) \cup {99, 100, 101, 150, 199, 200, 201, 1000}

\* The simulation the call holds failed with the unhealthy code or text.
UnhealthySimulation ==
    /\ backoff.simulation.err # "none"
    /\ \/ backoff.simulation.err = "custom_6013"
       \/ backoff.simulation.logs = "unhealthy_text"

\* C25: shrinking makes progress when it can. reduce_flow of a flow above 1
\* is at least 1 and at most the flow less one, and of a flow of at most 1 is
\* the flow; and after an unhealthy simulation, unless both candidates are at
\* the floor, both candidates are replaced by their reduced values and the
\* loop goes to its next attempt.
C25_ShrinkMakesProgress ==
    /\ [](\A flow \in ReduceFlows :
            /\ flow > 1 => (reduce_flow(flow) >= 1 /\ reduce_flow(flow) <= flow - 1)
            /\ flow <= 1 => reduce_flow(flow) = flow)
    /\ [][(/\ backoff.pc = "simulated"
           /\ UnhealthySimulation
           /\ backoff.candidate_base_flow > 1 \/ backoff.candidate_quote_flow > 1
           /\ backoff' # backoff) =>
              /\ backoff'.pc = "attempt"
              /\ backoff'.attempt = backoff.attempt + 1
              /\ backoff'.candidate_base_flow =
                   (IF backoff.candidate_base_flow > 1
                    THEN (backoff.candidate_base_flow * 99) \div 100
                    ELSE backoff.candidate_base_flow)
              /\ backoff'.candidate_quote_flow =
                   (IF backoff.candidate_quote_flow > 1
                    THEN (backoff.candidate_quote_flow * 99) \div 100
                    ELSE backoff.candidate_quote_flow)
              /\ requests' = requests]_vars

\* After an unhealthy simulation of a base flow at the floor and a larger
\* quote flow, the loop is at its next attempt with the quote flow reduced.
C25_Witness ==
    /\ backoff.pc = "attempt"
    /\ backoff.attempt = 1
    /\ UnhealthySimulation
    /\ backoff.base_flow = 1
    /\ backoff.candidate_base_flow = 1
    /\ backoff.quote_flow = MaxRequestedFlow
    /\ backoff.candidate_quote_flow = MaxRequestedFlow - 1

\* Every simulation of the call so far reported the unhealthy condition.
OnlyUnhealthy ==
    /\ backoff.pc # "idle"
    /\ \A i \in DOMAIN requests : requests[i].kind = "simulate" => requests[i].err # "none"
    /\ backoff.pc = "simulated" => UnhealthySimulation
    /\ backoff.result.error \notin {"rpc", "non_retriable"}

SimulationsMade == {i \in DOMAIN requests : requests[i].kind = "simulate"}

\* C26: while every simulation reports the unhealthy condition, each retry
\* strictly decreases every candidate that is above 1 (both, until one of
\* them reaches 1); the call never commits, makes at most
\* MAX_FLOW_REDUCTION_ATTEMPTS simulations, and ends, with a permanent
\* failure: the floor was reached or the attempts are used up.
C26_AlwaysUnhealthyTerminates ==
    /\ [](OnlyUnhealthy =>
            /\ \A i \in DOMAIN requests : requests[i].kind # "commit"
            /\ Cardinality(SimulationsMade) <= MAX_FLOW_REDUCTION_ATTEMPTS
            /\ backoff.pc = "returned" =>
                  /\ ~backoff.result.ok
                  /\ backoff.result.error \in {"cannot_reduce", "exhausted"})
    /\ [][(OnlyUnhealthy /\ backoff.pc = "simulated" /\ backoff'.pc = "attempt") =>
              /\ backoff.candidate_base_flow > 1 =>
                    backoff'.candidate_base_flow < backoff.candidate_base_flow
              /\ backoff.candidate_quote_flow > 1 =>
                    backoff'.candidate_quote_flow < backoff.candidate_quote_flow
              /\ backoff'.candidate_base_flow >= 1
              /\ backoff'.candidate_quote_flow >= 1]_vars
    /\ <>(backoff.pc = "returned")

\* A call for flows 3 and 2 has failed at the floor after three unhealthy
\* simulations: both flows shrank, the quote flow reached 1, then the base.
C26_Witness ==
    /\ OnlyUnhealthy
    /\ backoff.pc = "returned"
    /\ backoff.base_flow = 3
    /\ backoff.quote_flow = 2
    /\ Len(requests) = 3
    /\ requests[2].base_flow_u64 = 2 /\ requests[2].quote_flow_u64 = 1
    /\ requests[3].base_flow_u64 = 1 /\ requests[3].quote_flow_u64 = 1
    /\ backoff.result.error = "cannot_reduce"

\* C27: after an unhealthy simulation with both candidates at the floor of
\* 1, where a shrink changes neither, the call fails permanently at once: it
\* returns the cannot-reduce error, and makes no further simulation and no
\* commit, then or later.
C27_FailsAtFloor ==
    /\ [][(/\ backoff.pc = "simulated"
           /\ UnhealthySimulation
           /\ backoff.candidate_base_flow = 1
           /\ backoff.candidate_quote_flow = 1
           /\ backoff' # backoff) =>
              /\ backoff'.pc = "returned"
              /\ ~backoff'.result.ok
              /\ backoff'.result.error = "cannot_reduce"
              /\ requests' = requests]_vars
    /\ [][backoff.pc = "returned" => (backoff' = backoff /\ requests' = requests)]_vars
    /\ []((backoff.pc = "returned" /\ backoff.result.error = "cannot_reduce") =>
              /\ \A i \in DOMAIN requests : requests[i].kind = "simulate"
              /\ requests[Len(requests)].base_flow_u64 = 1
              /\ requests[Len(requests)].quote_flow_u64 = 1)

\* A call has failed at the floor on its first simulation.
C27_Witness ==
    /\ backoff.pc = "returned"
    /\ backoff.result.error = "cannot_reduce"
    /\ backoff.attempt = 0
    /\ Len(requests) = 1
    /\ backoff.candidate_base_flow = 1
    /\ backoff.candidate_quote_flow = 1

\* C28: a failed simulation is retried exactly when its error is the code
\* 6013 or its logs carry the unhealthy text, either alone being enough: the
\* call then shrinks (or fails at the floor). After any other failed
\* simulation the call fails at once with the non-retriable error, with no
\* shrink, no further simulation and no commit.
C28_RetriableExactlyWhenUnhealthy ==
    /\ [][(/\ backoff.pc = "simulated"
           /\ backoff.simulation.err # "none"
           /\ backoff' # backoff) =>
              IF \/ backoff.simulation.err = "custom_6013"
                 \/ backoff.simulation.logs = "unhealthy_text"
              THEN \/ /\ backoff'.pc = "attempt"
                      /\ backoff'.attempt = backoff.attempt + 1
                   \/ /\ backoff'.pc = "returned"
                      /\ backoff'.result.error = "cannot_reduce"
              ELSE /\ backoff'.pc = "returned"
                   /\ ~backoff'.result.ok
                   /\ backoff'.result.error = "non_retriable"
                   /\ backoff'.candidate_base_flow = backoff.candidate_base_flow
                   /\ backoff'.candidate_quote_flow = backoff.candidate_quote_flow
                   /\ requests' = requests]_vars
    /\ []((backoff.pc = "returned" /\ backoff.result.error = "non_retriable") =>
              /\ \A i \in DOMAIN requests : requests[i].kind = "simulate"
              /\ requests[Len(requests)].err # "none")

\* A simulation that failed with another error but carried the unhealthy
\* text was retried, and the next one, with another custom code and plain
\* logs, made the call fail.
C28_Witness ==
    /\ backoff.pc = "returned"
    /\ backoff.result.error = "non_retriable"
    /\ backoff.attempt = 1
    /\ Len(requests) = 2
    /\ requests[1].err = "other"
    /\ backoff.simulation = [err |-> "custom_other", logs |-> "plain"]

\* What made a call that has returned fail, as the call's own state shows it.
ExhaustedCause == backoff.attempt >= MAX_FLOW_REDUCTION_ATTEMPTS
FloorCause ==
    /\ backoff.attempt < MAX_FLOW_REDUCTION_ATTEMPTS
    /\ UnhealthySimulation
    /\ Len(requests) > 0
    /\ requests[Len(requests)].kind = "simulate"
    /\ requests[Len(requests)].err # "none"
    /\ requests[Len(requests)].base_flow_u64 = 1
    /\ requests[Len(requests)].quote_flow_u64 = 1
    /\ backoff.candidate_base_flow = 1
    /\ backoff.candidate_quote_flow = 1
    /\ backoff.result.error # "rpc"
NonRetriableCause ==
    /\ backoff.attempt < MAX_FLOW_REDUCTION_ATTEMPTS
    /\ backoff.simulation.err # "none"
    /\ ~UnhealthySimulation
    /\ backoff.result.error # "rpc"

\* C29: the caller can tell the failures of the backoff submitter apart. The
\* error for used-up attempts, the error for the floor and the error for a
\* non-retriable simulation are each returned for their own cause and for no
\* other, and none of them comes with a success.
C29_FailuresDistinct ==
    backoff.pc = "returned" =>
        /\ backoff.result.error = "exhausted" <=> ExhaustedCause
        /\ backoff.result.error = "cannot_reduce" <=> FloorCause
        /\ backoff.result.error = "non_retriable" <=> NonRetriableCause
        /\ backoff.result.error \in {"exhausted", "cannot_reduce", "non_retriable"} =>
              ~backoff.result.ok
        /\ backoff.result.ok => backoff.result.error = "none"

\* The attempts were used up just as both candidates reached the floor.
C29_Witness ==
    /\ backoff.pc = "returned"
    /\ backoff.result.error = "exhausted"
    /\ backoff.candidate_base_flow = 1
    /\ backoff.candidate_quote_flow = 1

(* --------------------------- the rebalance check ------------------------ *)

\* The largest balance, number of token decimals and oracle price numerator
\* in a call of needs_rebalance, and the denominator of the oracle price.
MaxRebalanceBalance == 4
MaxTokenDecimals == 1
MaxPriceNumerator == 6
PriceDenominator == 2

\* The thresholds in basis points a call is made with.
RebalanceThresholds == {0, 1, 100, 2500, 5000, 10000}

\* f64 values are modelled as exact fractions n / d with d > 0, and NaN.
Frac(n, d) == [nan |-> FALSE, n |-> n, d |-> d]
NaN == [nan |-> TRUE, n |-> 0, d |-> 1]
FracSub(a, b) == Frac(a.n * b.d - b.n * a.d, a.d * b.d)
FracAbs(a) == Frac(IF a.n < 0 THEN 0 - a.n ELSE a.n, a.d)
\* a / b for b > 0.
FracDiv(a, b) == Frac(a.n * b.d, a.d * b.n)
FracMul(a, b) == Frac(a.n * b.n, a.d * b.d)
FracGt(a, b) == a.n * b.d > b.n * a.d
FracLeZero(a) == a.n <= 0

\* The oracle prices a call is made with: negative, zero, positive, NaN.
OraclePrices == {Frac(n, PriceDenominator) : n \in -1 .. MaxPriceNumerator} \cup {NaN}

\* A mutant of needs_rebalance: the balances are looked at before the price.
needs_rebalance_ZeroBalanceFirst(price, bal, base_token_decimals, quote_token_decimals, threshold_bps) ==
    IF bal.base_balance = 0 \/ bal.quote_balance = 0
    THEN TRUE
    ELSE IF ~price.nan /\ FracLeZero(price)
    THEN FALSE
    ELSE LET base_ui == Frac(bal.base_balance, 10 ^ base_token_decimals)
             quote_ui == Frac(bal.quote_balance, 10 ^ quote_token_decimals)
             inventory_price == FracDiv(quote_ui, base_ui)
             deviation_bps ==
                 FracMul(FracDiv(FracAbs(FracSub(inventory_price, price)), price),
                         Frac(10000, 1))
         IN  IF price.nan THEN FALSE ELSE FracGt(deviation_bps, Frac(threshold_bps, 1))

\* rebalance.rs 9-43: needs_rebalance. A comparison with NaN is false (16,
\* 42); a nonzero balance in display units is positive (30).
needs_rebalance(price, bal, base_token_decimals, quote_token_decimals, threshold_bps) ==
    IF ~price.nan /\ FracLeZero(price)
    THEN FALSE
    ELSE IF bal.base_balance = 0 \/ bal.quote_balance = 0
    THEN TRUE
    ELSE LET base_ui == Frac(bal.base_balance, 10 ^ base_token_decimals)
             quote_ui == Frac(bal.quote_balance, 10 ^ quote_token_decimals)
         IN  IF FracLeZero(base_ui) \/ FracLeZero(quote_ui)
             THEN TRUE
             ELSE LET inventory_price == FracDiv(quote_ui, base_ui)
                      deviation_bps ==
                          FracMul(FracDiv(FracAbs(FracSub(inventory_price, price)), price),
                                  Frac(10000, 1))
                  IN  IF price.nan
                      THEN FALSE
                      ELSE FracGt(deviation_bps, Frac(threshold_bps, 1))

\* oracle-flow/main.rs 125-131: the function is applied to its arguments.
NeedsRebalance ==
    /\ call.pc = "called"
    /\ call.fn = "needs_rebalance"
    /\ call' = [call EXCEPT !.pc = "returned",
                            !.result = needs_rebalance(call.price, call.balances,
                                                       call.base_token_decimals,
                                                       call.quote_token_decimals,
                                                       call.threshold_bps)]
    /\ UNCHANGED <<cycleVars, backoff, requests, agentVars>>

\* The function is called with any price, balances, decimals and threshold.
InitRebalance ==
    /\ NoCycle
    /\ NoAgent
    /\ backoff = NoBackoff
    /\ requests = <<>>
    /\ \E price \in OraclePrices,
          base_balance \in 0 .. MaxRebalanceBalance,
          quote_balance \in 0 .. MaxRebalanceBalance,
          base_token_decimals \in 0 .. MaxTokenDecimals,
          quote_token_decimals \in 0 .. MaxTokenDecimals,
          threshold_bps \in RebalanceThresholds :
         call = [pc |-> "called",
                 fn |-> "needs_rebalance",
                 price |-> price,
                 balances |-> [base_balance |-> base_balance,
                               quote_balance |-> quote_balance],
                 base_token_decimals |-> base_token_decimals,
                 quote_token_decimals |-> quote_token_decimals,
                 threshold_bps |-> threshold_bps,
                 result |-> FALSE]

NextRebalance == NeedsRebalance

\* One call of needs_rebalance.
SpecRebalance == InitRebalance /\ [][NextRebalance]_vars

\* The call of needs_rebalance has returned, for a price that is a number.
RebalanceReturned ==
    /\ call.pc = "returned"
    /\ call.fn = "needs_rebalance"
    /\ ~call.price.nan

\* The two sides of the inventory-implied price and of the oracle price
\* brought to a common denominator: quote balance x 10^base decimals x price
\* denominator, and price numerator x base balance x 10^quote decimals.
InventorySide ==
    call.balances.quote_balance * 10 ^ call.base_token_decimals * call.price.d
OracleSide ==
    call.price.n * call.balances.base_balance * 10 ^ call.quote_token_decimals

\* C30: needs_rebalance returns false for an oracle price that is not
\* positive; for a positive price it returns true when either balance is
\* zero, and otherwise true exactly when the deviation of the
\* inventory-implied price (quote balance over base balance, each in display
\* units) from the oracle price, |inventory - oracle| / oracle x 10000,
\* is strictly above the threshold.
C30_NeedsRebalance ==
    RebalanceReturned =>
        /\ call.price.n <= 0 => ~call.result
        /\ (/\ call.price.n > 0
            /\ call.balances.base_balance = 0 \/ call.balances.quote_balance = 0) =>
               call.result
        /\ (/\ call.price.n > 0
            /\ call.balances.base_balance > 0
            /\ call.balances.quote_balance > 0) =>
               (call.result <=>
                   (IF InventorySide >= OracleSide
                    THEN InventorySide - OracleSide
                    ELSE OracleSide - InventorySide) * 10000
                       > call.threshold_bps * OracleSide)

\* A deviation of exactly the threshold: 3 quote for 2 base against a price
\* of 1, with a threshold of 5000 basis points, needs no rebalance.
C30_Witness ==
    /\ RebalanceReturned
    /\ call.balances.quote_balance = 3
    /\ call.balances.base_balance = 2
    /\ call.base_token_decimals = call.quote_token_decimals
    /\ call.price.n = call.price.d
    /\ call.threshold_bps = 5000
    /\ ~call.result

(* ------------------------ the sides of the delay ------------------------ *)

\* A call of calculate_update_delay in a market whose aggregate flows are
\* both nonzero, before or after it returned.
DelayCallWithFlows ==
    /\ call.pc # "idle"
    /\ call.fn = "calculate_update_delay"
    /\ call.market_state.base_flow # 0
    /\ call.market_state.quote_flow # 0

\* C40: in calculate_update_delay with both market aggregate flows nonzero,
\* the base side and the quote side never both have net outflow (the
\* position's outflow above the floor-divided inflow), so a call that takes
\* the base side first never passes over an insolvency of the quote side:
\* whenever the quote side has net outflow the time returned is the quote
\* side's.
C40_NeverBothNetOutflow ==
    DelayCallWithFlows =>
        LET inflows == Inflows(call.position, call.market_state)
            base_net == call.position.base_flow_u64 > inflows.base_inflow
            quote_net == call.position.quote_flow_u64 > inflows.quote_inflow
        IN  /\ ~(base_net /\ quote_net)
            /\ (call.pc = "returned" /\ quote_net) =>
                  call.slots_until_debt =
                      call.balances.quote_balance
                          \div (call.position.quote_flow_u64 - inflows.quote_inflow)

\* A call has returned the base side's time for a position that pays out on
\* both sides, in a market whose flows are not equal.
C40_Witness ==
    /\ DelayCallWithFlows
    /\ call.pc = "returned"
    /\ call.position.base_flow_u64 > 0
    /\ call.position.quote_flow_u64 > 0
    /\ call.market_state.base_flow # call.market_state.quote_flow
    /\ call.position.base_flow_u64 >
           Inflows(call.position, call.market_state).base_inflow
    /\ call.slots_until_debt < U64_MAX

(* ----------------------- the segments of a walk ------------------------- *)

\* A step of a walk in progress, from a checkpoint that is not after the
\* current slot, that leaves the call in the same walk.
WalkStepping ==
    /\ pc = "walk"
    /\ pc' = "walk"
    /\ walk' # walk
    /\ walk'.which = walk.which
    /\ bookkeeping.last_update_slot <= current_slot

\* The step of its window the checkpoint lies in, and the current slot's.
CheckpointStep ==
    (bookkeeping.last_update_slot
        - WindowBase(WindowIndex(bookkeeping.last_update_slot, market), market))
        \div market.end_slot_interval
CurrentStep ==
    (current_slot - WindowBase(WindowIndex(current_slot, market), market))
        \div market.end_slot_interval

\* What a segment of the given duration adds to the walk's integral.
SegmentShare(duration) ==
    ((BOOKKEEPING_PRECISION_FACTOR
        * (IF walk.which = "bpq" THEN walk.market_base_flow ELSE walk.market_quote_flow))
        \div (IF walk.which = "bpq" THEN walk.market_quote_flow ELSE walk.market_base_flow))
        * duration

\* C35: in each integral walk from a checkpoint that is not after the
\* current slot, the segments follow one another from the checkpoint to the
\* current slot: every segment starts where the one before ended, has a
\* duration that is not negative and is integrated with that duration, the
\* first window starts at the step after the checkpoint's, the last window
\* ends at the current slot's step, and the final partial segment ends at
\* the current slot. The durations therefore add up to the current slot less
\* the checkpoint: no slot is integrated twice or left out.
C35_SegmentsCoverElapsedOnce ==
    /\ []((pc = "walk" /\ bookkeeping.last_update_slot <= current_slot) =>
            /\ bookkeeping.last_update_slot <= walk.last_update_slot
            /\ walk.last_update_slot <= current_slot
            /\ walk.exits_index >= WindowIndex(bookkeeping.last_update_slot, market)
            /\ walk.exits_index <= WindowIndex(current_slot, market) + 1)
    /\ [][WalkStepping =>
            /\ walk.phase = "window" =>
                  /\ walk'.last_update_slot = walk.last_update_slot
                  /\ walk'.i = (IF walk.exits_index
                                     = WindowIndex(bookkeeping.last_update_slot, market)
                                THEN CheckpointStep + 1
                                ELSE 0)
                  /\ walk'.end_index = (IF walk.exits_index = WindowIndex(current_slot, market)
                                        THEN CurrentStep
                                        ELSE ARRAY_LENGTH - 1)
            /\ (walk.phase = "steps" /\ walk.i <= walk.end_index) =>
                  LET slot == walk.i * market.end_slot_interval
                                  + walk.exits_index * market.end_slot_interval * ARRAY_LENGTH
                  IN  /\ slot >= walk.last_update_slot
                      /\ slot <= current_slot
                      /\ walk'.last_update_slot = slot
                      /\ walk'.integral =
                           (IF walk.market_base_flow = 0 \/ walk.market_quote_flow = 0
                            THEN walk.integral
                            ELSE (walk.integral + SegmentShare(slot - walk.last_update_slot))
                                     % U128)
            /\ (walk.phase = "steps" /\ walk.i > walk.end_index) =>
                  /\ walk'.exits_index = walk.exits_index + 1
                  /\ walk'.integral =
                       (IF \/ walk.exits_index # WindowIndex(current_slot, market)
                           \/ walk.market_base_flow = 0
                           \/ walk.market_quote_flow = 0
                        THEN walk.integral
                        ELSE (walk.integral
                                + SegmentShare(current_slot - walk.last_update_slot)) % U128)
         ]_vars

\* A walk has ended that went over more than one window, from a checkpoint
\* on no step to a current slot on no step, through steps in between.
C35_Witness ==
    /\ pc = "walk"
    /\ walk.phase = "window"
    /\ walk.exits_index > WindowIndex(current_slot, market)
    /\ WindowIndex(current_slot, market) > WindowIndex(bookkeeping.last_update_slot, market)
    /\ bookkeeping.last_update_slot % market.end_slot_interval # 0
    /\ walk.last_update_slot > bookkeeping.last_update_slot
    /\ walk.last_update_slot < current_slot
    /\ walk.integral > bookkeeping.base_per_quote

(* --------------------- stops and the resubscription loop ---------------- *)

\* The periodic task has ended by itself: it returned or panicked.
PeriodicDone == update_flows_task.pc \in {"returned", "panicked"}

\* C36 as stated: when a periodic evaluation decides Stop the periodic loop
\* ends, whatever the stop submission comes to and without another attempt,
\* and the whole agent then shuts down: the main loop exits and no scheduled
\* task is left pending.
C36_PeriodicStopShutsDown ==
    /\ [][update_flows_task.pc = "stop" =>
             update_flows_task'.pc \in {"returned", "panicked", "aborted"}]_update_flows_task
    /\ [][PeriodicDone => update_flows_task' = update_flows_task]_update_flows_task
    /\ (update_flows_task.pc = "stop") ~> (main_loop.pc = "exited" /\ LiveTasks = {})

\* C37: a scheduled reactive task holds no decision while it waits; when its
\* delay is over it evaluates anew, and what it submits is the decision of
\* that evaluation. A stop it submits leaves the main loop and the periodic
\* task as they are: the agent is not shut down by it.
C37_ScheduledTaskEvaluatesAnew ==
    /\ [](\A id \in DOMAIN tasks : tasks[id].pc = "delay" => tasks[id].action = NoDecision)
    /\ [][\A id \in DOMAIN tasks :
            /\ (tasks[id].pc = "delay" /\ tasks'[id] # tasks[id]) =>
                  /\ tasks'[id].pc \in {"evaluate", "finished", "aborted"}
                  /\ sent' = sent
            /\ (tasks'[id].pc \in {"update", "stop"} /\ tasks'[id] # tasks[id]) =>
                  /\ tasks[id].pc = "evaluate"
                  /\ tasks'[id].action.kind =
                        (IF tasks'[id].pc = "stop" THEN "Stop" ELSE "UpdateFlows")
            /\ (tasks[id].pc = "update" /\ tasks'[id].pc = "finished") =>
                  /\ sent' \subseteq sent \cup {[kind |-> "commit",
                                                base_flow_u64 |-> tasks[id].action.base_flow,
                                                quote_flow_u64 |-> tasks[id].action.quote_flow]}
                  /\ main_loop' = main_loop
                  /\ update_flows_task' = update_flows_task
            /\ (tasks[id].pc = "stop" /\ tasks'[id].pc = "finished") =>
                  /\ sent' \subseteq sent \cup {StopRequest}
                  /\ main_loop' = main_loop
                  /\ update_flows_task' = update_flows_task
                  /\ \A j \in DOMAIN tasks : j # id => tasks'[j] = tasks[j]
         ]_vars

\* The task scheduled for the only notification has fired, decided Stop anew
\* and sent the stop; the main loop and the periodic task are running.
C37_Witness ==
    /\ stream.notified = 1
    /\ tasks[1].pc = "finished"
    /\ StopRequest \in sent
    /\ main_loop.pc = "select"
    /\ ~Ended(update_flows_task)
    /\ update_flows_task.pc # "stop"

\* C38: while the main loop is in its resubscription loop it acts neither on
\* a pending operator interrupt nor on the periodic task having ended: it
\* only sleeps and tries again, shuts nothing down, and leaves the loop only
\* for its select, with a new stream. The agent is shut down only from
\* outside the resubscription loop.
C38_ResubscriptionBlocksShutdown ==
    [][/\ (Resubscribing /\ (interrupt \/ PeriodicDone)) =>
             /\ main_loop'.pc \in {"resubscribe", "retry_sleep", "select"}
             /\ main_loop'.pc = "select" => stream'.generation = stream.generation + 1
             /\ update_flows_task'.pc # "aborted" \/ update_flows_task.pc = "aborted"
       /\ main_loop'.pc = "exited" => ~Resubscribing
      ]_vars

\* The main loop is waiting to retry its resubscription while an interrupt
\* is pending and the periodic task has returned.
C38_Witness ==
    /\ main_loop.pc = "retry_sleep"
    /\ interrupt
    /\ update_flows_task.pc = "returned"

(* ------------------------- the update-needed check ---------------------- *)

\* quote.rs 115: the number of basis points in one.
BPS == 10000

\* The flows and thresholds a call of should_update_quote is made with:
\* zero, small flows, the ratios 1:100 and 1:101, and the largest u64.
QuoteFlows == {0, 1, 2, 3, 100, 101, U64 - 1}
QuoteThresholds == {0, 50, 150, BPS}

\* quote.rs 105-115: the deviation in basis points between the current and
\* the optimal ratio, for four nonzero flows. The products of two u64 values
\* fit u128; the product with 10_000 is a plain u128 multiplication.
DeviationBps(current_base_flow, current_quote_flow, optimal) ==
    LET current_ratio == current_base_flow * optimal.quote_flow
        optimal_ratio == optimal.base_flow * current_quote_flow
        larger == IF current_ratio > optimal_ratio THEN current_ratio ELSE optimal_ratio
        smaller == IF current_ratio > optimal_ratio THEN optimal_ratio ELSE current_ratio
        scaled == MulW(larger - smaller, BPS, U128)
    IN  [o |-> scaled.o,
         exact |-> ((larger - smaller) * BPS) \div smaller,
         wrapped |-> scaled.v \div smaller]

\* quote.rs 89-118: should_update_quote, as the set of the ways the call can
\* end: a returned boolean, or a panic where the u128 product overflows and
\* overflow checks are on.
should_update_quote(current_base_flow, current_quote_flow, optimal, threshold_bps) ==
    IF current_base_flow = 0 \/ current_quote_flow = 0
    THEN {[how |-> "exact", value |-> optimal.base_flow > 0 /\ optimal.quote_flow > 0]}
    ELSE IF optimal.base_flow = 0 \/ optimal.quote_flow = 0
    THEN {[how |-> "exact", value |-> FALSE]}
    ELSE LET deviation_bps == DeviationBps(current_base_flow, current_quote_flow, optimal)
         IN  {[how |-> how,
               value |-> CASE how = "exact" -> deviation_bps.exact > threshold_bps
                           [] how = "wrap" -> deviation_bps.wrapped > threshold_bps
                           [] how = "panic" -> FALSE] :
                 how \in Builds(deviation_bps.o, FALSE)}

\* oracle-flow/main.rs 173-178: the function is applied to its arguments.
ShouldUpdateQuote ==
    /\ call.pc = "called"
    /\ call.fn = "should_update_quote"
    /\ \E result \in should_update_quote(call.current_base_flow, call.current_quote_flow,
                                         call.optimal, call.threshold_bps) :
         call' = [call EXCEPT !.pc = "returned", !.result = result]
    /\ UNCHANGED <<cycleVars, backoff, requests, agentVars>>

\* The function is called with any current flows, optimal quote and threshold.
InitUpdateCheck ==
    /\ NoCycle
    /\ NoAgent
    /\ backoff = NoBackoff
    /\ requests = <<>>
    /\ \E current_base_flow \in QuoteFlows, current_quote_flow \in QuoteFlows,
          base_flow \in QuoteFlows, quote_flow \in QuoteFlows,
          threshold_bps \in QuoteThresholds :
         call = [pc |-> "called",
                 fn |-> "should_update_quote",
                 current_base_flow |-> current_base_flow,
                 current_quote_flow |-> current_quote_flow,
                 optimal |-> [base_flow |-> base_flow, quote_flow |-> quote_flow],
                 threshold_bps |-> threshold_bps,
                 result |-> [how |-> "exact", value |-> FALSE]]

NextUpdateCheck == ShouldUpdateQuote

\* One call of should_update_quote.
SpecUpdateCheck == InitUpdateCheck /\ [][NextUpdateCheck]_vars

\* The call of should_update_quote has returned or panicked.
UpdateCheckEnded ==
    /\ call.pc = "returned"
    /\ call.fn = "should_update_quote"

\* The larger and the smaller of current_base x optimal_quote and
\* optimal_base x current_quote, as numbers.
CurrentCross == call.current_base_flow * call.optimal.quote_flow
OptimalCross == call.optimal.base_flow * call.current_quote_flow
LargerCross == IF CurrentCross > OptimalCross THEN CurrentCross ELSE OptimalCross
SmallerCross == IF CurrentCross > OptimalCross THEN OptimalCross ELSE CurrentCross

\* C32: should_update_quote returns, and: with a zero current flow it returns
\* true exactly when both optimal flows are positive; else with a zero
\* optimal flow it returns false; else it returns true exactly when
\* (larger - smaller) x 10000 / smaller, in integer division, is strictly
\* above the threshold.
C32_ShouldUpdateQuote ==
    UpdateCheckEnded =>
        /\ call.result.how # "panic"
        /\ IF call.current_base_flow = 0 \/ call.current_quote_flow = 0
           THEN call.result.value <=>
                    (call.optimal.base_flow > 0 /\ call.optimal.quote_flow > 0)
           ELSE IF call.optimal.base_flow = 0 \/ call.optimal.quote_flow = 0
           THEN ~call.result.value
           ELSE call.result.value <=>
                    ((LargerCross - SmallerCross) * BPS) \div SmallerCross
                        > call.threshold_bps

\* The same, for the calls in which the product with 10000 fits u128.
C32_WithinU128 ==
    (UpdateCheckEnded /\ (LargerCross - SmallerCross) * BPS < U128) =>
        /\ call.result.how = "exact"
        /\ IF call.current_base_flow = 0 \/ call.current_quote_flow = 0
           THEN call.result.value <=>
                    (call.optimal.base_flow > 0 /\ call.optimal.quote_flow > 0)
           ELSE IF call.optimal.base_flow = 0 \/ call.optimal.quote_flow = 0
           THEN ~call.result.value
           ELSE call.result.value <=>
                    ((LargerCross - SmallerCross) * BPS) \div SmallerCross
                        > call.threshold_bps

\* The current ratio 1:100 against the optimal ratio 1:101 at 50 and at 150
\* basis points.
ScenarioD_Triggered ==
    /\ UpdateCheckEnded
    /\ call.current_base_flow = 1 /\ call.current_quote_flow = 100
    /\ call.optimal = [base_flow |-> 1, quote_flow |-> 101]
    /\ call.threshold_bps = 50
    /\ call.result = [how |-> "exact", value |-> TRUE]
ScenarioD_NotTriggered ==
    /\ UpdateCheckEnded
    /\ call.current_base_flow = 1 /\ call.current_quote_flow = 100
    /\ call.optimal = [base_flow |-> 1, quote_flow |-> 101]
    /\ call.threshold_bps = 150
    /\ call.result = [how |-> "exact", value |-> FALSE]

\* The factors by which the current flows are scaled.
MaxScale == 3

\* C33: for nonzero current flows and every positive k for which the scaled
\* flows are u64 values, should_update_quote of the current flows scaled by k
\* ends as the call of the unscaled flows did.
C33_ScalingKeepsResult ==
    (UpdateCheckEnded /\ call.current_base_flow # 0 /\ call.current_quote_flow # 0) =>
        \A k \in 1 .. MaxScale :
            (k * call.current_base_flow < U64 /\ k * call.current_quote_flow < U64) =>
                should_update_quote(k * call.current_base_flow,
                                    k * call.current_quote_flow,
                                    call.optimal, call.threshold_bps)
                    = {call.result}

\* The same, for the calls in which the products with 10000, scaled and
\* unscaled, fit u128.
C33_WithinU128 ==
    (UpdateCheckEnded /\ call.current_base_flow # 0 /\ call.current_quote_flow # 0) =>
        \A k \in 1 .. MaxScale :
            (/\ k * call.current_base_flow < U64
             /\ k * call.current_quote_flow < U64
             /\ k * (LargerCross - SmallerCross) * BPS < U128) =>
                should_update_quote(k * call.current_base_flow,
                                    k * call.current_quote_flow,
                                    call.optimal, call.threshold_bps)
                    = {call.result}

(* --------------------------- the optimal quote -------------------------- *)

\* The greatest common divisor of two naturals, and a fraction in lowest
\* terms: the model keeps the exact value of an f64 computation.
RECURSIVE GCD(_, _)
GCD(a, b) == IF b = 0 THEN a ELSE GCD(b, a % b)
FracReduce(a) ==
    LET g == GCD(IF a.n < 0 THEN 0 - a.n ELSE a.n, a.d)
    IN  Frac(a.n \div g, a.d \div g)
FracAdd(a, b) == FracReduce(Frac(a.n * b.d + b.n * a.d, a.d * b.d))
FracGe(a, b) == a.n * b.d >= b.n * a.d
\* The largest integer not above a, for a > 0.
FracFloor(a) == a.n \div a.d

\* An Option<T>.
None == [some |-> FALSE]
Some(v) == [some |-> TRUE, v |-> v]

\* The oracle prices, weights, balances, token decimals and current flows a
\* call of calculate_optimal_quote is made with.
QuotePrices ==
    {Frac(-1, 1), Frac(0, 1), Frac(1, 2), Frac(1, 1), Frac(3, 2), Frac(84, 1),
     Frac(101, 1), NaN}
QuoteWeights == {Frac(-1, 2), Frac(0, 1), Frac(1, 2), Frac(1, 1), NaN}
QuoteBalances == {0, 1, 2, 10, 100}
QuoteDecimals == {0, 1}
CurrentFlows == {0, 2}

\* A mutant of sanitize_weight: the weight is used as configured.
sanitize_weight_AsConfigured(weight) == weight

\* quote.rs 120-126: sanitize_weight.
sanitize_weight(weight) ==
    IF ~weight.nan /\ weight.n >= 0 THEN weight ELSE Frac(0, 1)

\* quote.rs 128-144: liquidity_position_price. A nonzero balance in display
\* units is finite and positive.
liquidity_position_price(bal, base_token_decimals, quote_token_decimals) ==
    IF bal.base_balance = 0 \/ bal.quote_balance = 0
    THEN None
    ELSE LET base_ui == Frac(bal.base_balance, 10 ^ base_token_decimals)
             quote_ui == Frac(bal.quote_balance, 10 ^ quote_token_decimals)
         IN  Some(FracReduce(FracDiv(quote_ui, base_ui)))

\* quote.rs 251, 276: raw.floor().clamp(1.0, u64::MAX as f64) as u64.
FloorToU64(raw) ==
    LET floor == FracFloor(raw)
    IN  IF floor < 1 THEN 1 ELSE IF floor > U64 - 1 THEN U64 - 1 ELSE floor

\* u64::clamp(lo, hi), for lo <= hi.
Clamp(v, lo, hi) == IF v < lo THEN lo ELSE IF v > hi THEN hi ELSE v

\* quote.rs 229-252: quote_flow_for_price.
quote_flow_for_price(base_flow, target_quote_price, base_token_decimals, quote_token_decimals) ==
    IF base_flow = 0 \/ target_quote_price.nan \/ FracLeZero(target_quote_price)
    THEN None
    ELSE LET base_scale == Frac(10 ^ base_token_decimals, 1)
             quote_scale == Frac(10 ^ quote_token_decimals, 1)
             quote_per_base_native ==
                 FracReduce(FracDiv(FracMul(target_quote_price, quote_scale), base_scale))
             raw == FracReduce(FracMul(Frac(base_flow, 1), quote_per_base_native))
         IN  IF FracLeZero(quote_per_base_native) \/ FracLeZero(raw)
             THEN None
             ELSE Some(FloorToU64(raw))

\* quote.rs 254-277: base_flow_for_price.
base_flow_for_price(quote_flow, target_quote_price, base_token_decimals, quote_token_decimals) ==
    IF quote_flow = 0 \/ target_quote_price.nan \/ FracLeZero(target_quote_price)
    THEN None
    ELSE LET base_scale == Frac(10 ^ base_token_decimals, 1)
             quote_scale == Frac(10 ^ quote_token_decimals, 1)
             base_per_quote_native ==
                 FracReduce(FracDiv(base_scale, FracMul(target_quote_price, quote_scale)))
             raw == FracReduce(FracMul(Frac(quote_flow, 1), base_per_quote_native))
         IN  IF FracLeZero(base_per_quote_native) \/ FracLeZero(raw)
             THEN None
             ELSE Some(FloorToU64(raw))

\* quote.rs 176-227: compute_target_flows.
compute_target_flows(bal, target_quote_price, inventory_quote_price, base_token_decimals, quote_token_decimals) ==
    IF bal.base_balance = 0 \/ bal.quote_balance = 0
    THEN None
    ELSE IF \/ target_quote_price.nan \/ FracLeZero(target_quote_price)
            \/ inventory_quote_price.nan \/ FracLeZero(inventory_quote_price)
    THEN None
    ELSE IF FracGe(target_quote_price, inventory_quote_price)
    THEN LET quote_flow == bal.quote_balance
             solved == base_flow_for_price(quote_flow, target_quote_price,
                                           base_token_decimals, quote_token_decimals)
         IN  IF ~solved.some
             THEN None
             ELSE Some([base_flow |-> Clamp(solved.v, 1, bal.base_balance),
                        quote_flow |-> quote_flow])
    ELSE LET base_flow == bal.base_balance
             solved == quote_flow_for_price(base_flow, target_quote_price,
                                            base_token_decimals, quote_token_decimals)
         IN  IF ~solved.some
             THEN None
             ELSE Some([base_flow |-> base_flow,
                        quote_flow |-> Clamp(solved.v, 1, bal.quote_balance)])

\* quote.rs 15-84: calculate_optimal_quote, with the target price it logs
\* (71-81). The market price without the position (39-44) is only logged.
calculate_optimal_quote(price, position, bal, base_token_decimals, quote_token_decimals, weight) ==
    LET fallback ==
            [kept |-> TRUE,
             base_flow |-> IF position.base_flow_u64 > 1 THEN position.base_flow_u64 ELSE 1,
             quote_flow |-> IF position.quote_flow_u64 > 1 THEN position.quote_flow_u64 ELSE 1]
        lp_price == liquidity_position_price(bal, base_token_decimals, quote_token_decimals)
        normalized_weight == sanitize_weight(weight)
    IN  IF price.nan \/ FracLeZero(price)
        THEN fallback
        ELSE IF ~lp_price.some
        THEN fallback
        ELSE LET target_quote_price ==
                     FracReduce(FracDiv(FracAdd(price, FracMul(normalized_weight, lp_price.v)),
                                        FracAdd(Frac(1, 1), normalized_weight)))
                 target_flows ==
                     compute_target_flows(bal, target_quote_price, lp_price.v,
                                          base_token_decimals, quote_token_decimals)
             IN  IF ~target_flows.some
                 THEN fallback
                 ELSE [kept |-> FALSE,
                       target_quote_price |-> target_quote_price,
                       base_flow |-> target_flows.v.base_flow,
                       quote_flow |-> target_flows.v.quote_flow]

\* oracle-flow/main.rs 158-166: the function is applied to its arguments.
CalculateOptimalQuote ==
    /\ call.pc = "called"
    /\ call.fn = "calculate_optimal_quote"
    /\ call' = [call EXCEPT !.pc = "returned",
                            !.result = calculate_optimal_quote(call.price, call.position,
                                                               call.balances,
                                                               call.base_token_decimals,
                                                               call.quote_token_decimals,
                                                               call.weight)]
    /\ UNCHANGED <<cycleVars, backoff, requests, agentVars>>

\* The function is called with any price, position flows, balances, decimals
\* and weight.
InitQuote ==
    /\ NoCycle
    /\ NoAgent
    /\ backoff = NoBackoff
    /\ requests = <<>>
    /\ \E price \in QuotePrices, weight \in QuoteWeights,
          base_balance \in QuoteBalances, quote_balance \in QuoteBalances,
          base_token_decimals \in QuoteDecimals, quote_token_decimals \in QuoteDecimals,
          base_flow_u64 \in CurrentFlows, quote_flow_u64 \in CurrentFlows :
         call = [pc |-> "called",
                 fn |-> "calculate_optimal_quote",
                 price |-> price,
                 position |-> [base_flow_u64 |-> base_flow_u64,
                               quote_flow_u64 |-> quote_flow_u64],
                 balances |-> [base_balance |-> base_balance,
                               quote_balance |-> quote_balance],
                 base_token_decimals |-> base_token_decimals,
                 quote_token_decimals |-> quote_token_decimals,
                 weight |-> weight,
                 result |-> [kept |-> TRUE, base_flow |-> 1, quote_flow |-> 1]]

NextQuote == CalculateOptimalQuote

\* One call of calculate_optimal_quote.
SpecQuote == InitQuote /\ [][NextQuote]_vars

\* The call of calculate_optimal_quote has returned, for a valid oracle price
\* and two nonzero balances.
QuoteReturned ==
    /\ call.pc = "returned"
    /\ call.fn = "calculate_optimal_quote"
    /\ ~call.price.nan
    /\ call.price.n > 0
    /\ call.balances.base_balance > 0
    /\ call.balances.quote_balance > 0

\* The weight of the claim: the configured one when it is a number not below
\* zero, else zero; as numerator and denominator.
WeightN == IF ~call.weight.nan /\ call.weight.n >= 0 THEN call.weight.n ELSE 0
WeightD == IF ~call.weight.nan /\ call.weight.n >= 0 THEN call.weight.d ELSE 1

\* The inventory price, quote balance over base balance in display units, as
\* numerator and denominator.
InventoryN == call.balances.quote_balance * 10 ^ call.base_token_decimals
InventoryD == call.balances.base_balance * 10 ^ call.quote_token_decimals

\* (oracle + w x inventory) / (1 + w), as numerator and denominator.
TargetN == call.price.n * WeightD * InventoryD + WeightN * InventoryN * call.price.d
TargetD == call.price.d * InventoryD * (WeightD + WeightN)
Target == FracReduce(Frac(TargetN, TargetD))

\* The larger of 1 and the floor of n / d.
SolvedFlow(n, d) == IF n \div d < 1 THEN 1 ELSE n \div d

\* C31: with a valid oracle price and both balances nonzero, the target price
\* is (oracle + w x inventory price) / (1 + w), w being 0 for a weight that
\* is not a finite non-negative number; if the target is at least the
\* inventory price the quote flow is the whole quote balance and the base
\* flow is the quote balance divided by the target price in native units of
\* both tokens (rounded down, at least 1); otherwise the base flow is the
\* whole base balance and the quote flow is the base balance times the target
\* price in native units (rounded down, at least 1).
C31_OptimalQuote ==
    QuoteReturned =>
        /\ ~call.result.kept
        /\ call.result.target_quote_price = Target
        /\ IF Target.n * InventoryD >= InventoryN * Target.d
           THEN /\ call.result.quote_flow = call.balances.quote_balance
                /\ call.result.base_flow =
                       SolvedFlow(call.balances.quote_balance
                                      * 10 ^ call.base_token_decimals * Target.d,
                                  Target.n * 10 ^ call.quote_token_decimals)
           ELSE /\ call.result.base_flow = call.balances.base_balance
                /\ call.result.quote_flow =
                       SolvedFlow(call.balances.base_balance
                                      * Target.n * 10 ^ call.quote_token_decimals,
                                  Target.d * 10 ^ call.base_token_decimals)

\* Scenario C: oracle 84, 1.0 base and 100.0 quote in display units (one
\* base decimal, no quote decimal), weight 0: the base flow is the whole base
\* balance and the quote flow is 84 display units.
C31_Witness ==
    /\ QuoteReturned
    /\ call.price = Frac(84, 1)
    /\ call.weight = Frac(0, 1)
    /\ call.balances = [base_balance |-> 10, quote_balance |-> 100]
    /\ call.base_token_decimals = 1
    /\ call.quote_token_decimals = 0
    /\ call.result.target_quote_price = Frac(84, 1)
    /\ call.result.base_flow = 10
    /\ call.result.quote_flow = 84

\* A quote-bound call with a blended target: oracle 101 and inventory price
\* 100 at weight 1 give the target 201 / 2.
QuoteBoundBlended ==
    /\ QuoteReturned
    /\ call.price = Frac(101, 1)
    /\ call.weight = Frac(1, 1)
    /\ call.balances = [base_balance |-> 1, quote_balance |-> 100]
    /\ call.base_token_decimals = call.quote_token_decimals
    /\ call.result.target_quote_price = Frac(201, 2)
    /\ call.result.quote_flow = 100
    /\ call.result.base_flow = 1

(* ------------------------- the oracle-driven cycle ---------------------- *)

\* The largest slot, balance and position flow the oracle-driven cycle reads.
MaxOracleSlot == 2
MaxOracleBalance == 4
MaxOracleFlow == 1

\* oracle-flow/main.rs 35-39: the configuration the binary runs with.
OracleConfig ==
    [quote_threshold_bps |-> 50,
     rebalance_threshold_bps |-> 5000,
     base_token_decimals |-> 0,
     quote_token_decimals |-> 0,
     optimal_quote_weight |-> Frac(0, 1)]

\* The prices the feed returns.
FeedPrices == {Frac(1, 1), Frac(2, 1)}

\* The variables of the inventory-flow agent that oracle-flow does not have.
oracleIdle == <<cycleVars, call, update_flows_task, tasks, current_task, stream,
                interrupt, sent>>

\* A mutant of execute_rebalance: the rebalance is carried out.
execute_rebalance_Succeeds == [ok |-> TRUE, error |-> "none"]

\* rebalance.rs 48-56: execute_rebalance bails.
execute_rebalance == [ok |-> FALSE, error |-> "rebalance"]

\* oracle-flow/main.rs 184-186: the window index of an update.
OracleReferenceIndex(market_state) ==
    ((market_state.current_slot + ARRAY_LENGTH \div 2) \div ARRAY_LENGTH)
        \div market_state.end_slot_interval

\* oracle-flow/main.rs 82, 104: the cycle returned Err, which the loop logs.
CycleError(error) == [pc |-> "select", error |-> error]

\* oracle-flow/main.rs 63-66: the interrupt arm of the select.
OracleCtrlC ==
    /\ main_loop.pc = "select"
    /\ main_loop' = [pc |-> "exited", error |-> main_loop.error]
    /\ UNCHANGED <<oracleIdle, backoff, requests>>

\* oracle-flow/main.rs 67-68, 106: the poll interval elapsed, the cycle
\* starts and fetches the price (`?`).
OraclePoll ==
    /\ main_loop.pc = "select"
    /\ \/ main_loop' = CycleError("price")
       \/ \E price \in FeedPrices :
            main_loop' = [pc |-> "fetch_state", error |-> "none", price |-> price]
    /\ requests' = <<>>
    /\ UNCHANGED <<oracleIdle, backoff>>

\* oracle-flow/main.rs 110-119: the market state and the position are
\* fetched (`?`) and the balances reconciled, which can panic.
OracleFetchState ==
    /\ main_loop.pc = "fetch_state"
    /\ \/ main_loop' = CycleError("fetch")
       \/ main_loop' = [pc |-> "panicked", error |-> "reconcile"]
       \/ \E slot \in 0 .. MaxOracleSlot, interval \in 1 .. MaxInterval,
             base_flow_u64 \in 0 .. MaxOracleFlow, quote_flow_u64 \in 0 .. MaxOracleFlow,
             base_balance \in 0 .. MaxOracleBalance,
             quote_balance \in 0 .. MaxOracleBalance :
            main_loop' = [pc |-> "rebalance_check",
                          error |-> "none",
                          price |-> main_loop.price,
                          market_state |-> [current_slot |-> slot,
                                            end_slot_interval |-> interval],
                          position |-> [base_flow_u64 |-> base_flow_u64,
                                        quote_flow_u64 |-> quote_flow_u64],
                          balances |-> [base_balance |-> base_balance,
                                        quote_balance |-> quote_balance]]
    /\ UNCHANGED <<oracleIdle, backoff, requests>>

\* The cycle's call of needs_rebalance (main.rs 125-131).
CycleNeedsRebalance ==
    needs_rebalance(main_loop.price, main_loop.balances,
                    OracleConfig.base_token_decimals, OracleConfig.quote_token_decimals,
                    OracleConfig.rebalance_threshold_bps)

\* oracle-flow/main.rs 125-155: the rebalance check; a needed rebalance is
\* executed (`?`) and the state fetched again.
OracleRebalanceCheck ==
    /\ main_loop.pc = "rebalance_check"
    /\ IF CycleNeedsRebalance
       THEN IF execute_rebalance.ok
            THEN \E base_balance \in 0 .. MaxOracleBalance,
                    quote_balance \in 0 .. MaxOracleBalance :
                   main_loop' = [main_loop EXCEPT
                                   !.pc = "quote",
                                   !.balances = [base_balance |-> base_balance,
                                                 quote_balance |-> quote_balance]]
            ELSE main_loop' = CycleError(execute_rebalance.error)
       ELSE main_loop' = [main_loop EXCEPT !.pc = "quote"]
    /\ UNCHANGED <<oracleIdle, backoff, requests>>

\* oracle-flow/main.rs 158-204: the optimal quote is computed and compared
\* with the current flows; an update goes to the backoff submitter with the
\* window index of 184-186.
OracleQuote ==
    /\ main_loop.pc = "quote"
    /\ LET optimal == calculate_optimal_quote(main_loop.price, main_loop.position,
                                              main_loop.balances,
                                              OracleConfig.base_token_decimals,
                                              OracleConfig.quote_token_decimals,
                                              OracleConfig.optimal_quote_weight)
       IN  \E check \in should_update_quote(main_loop.position.base_flow_u64,
                                            main_loop.position.quote_flow_u64,
                                            optimal, OracleConfig.quote_threshold_bps) :
             IF check.how = "panic"
             THEN /\ main_loop' = [pc |-> "panicked", error |-> "overflow"]
                  /\ UNCHANGED backoff
             ELSE IF check.value
             THEN /\ main_loop' = [main_loop EXCEPT !.pc = "updating"]
                  /\ backoff' = [pc |-> "called",
                                 base_flow |-> optimal.base_flow,
                                 quote_flow |-> optimal.quote_flow,
                                 reference_index |->
                                     OracleReferenceIndex(main_loop.market_state),
                                 candidate_base_flow |-> 0,
                                 candidate_quote_flow |-> 0,
                                 attempt |-> 0,
                                 simulation |-> NoSimulation,
                                 result |-> NoResult]
             ELSE /\ main_loop' = [pc |-> "select", error |-> "none"]
                  /\ UNCHANGED backoff
    /\ UNCHANGED <<oracleIdle, requests>>

\* oracle-flow/main.rs 196-206: the submitter returned (`?`).
OracleAfterUpdate ==
    /\ main_loop.pc = "updating"
    /\ backoff.pc = "returned"
    /\ main_loop' = [pc |-> "select",
                     error |-> IF backoff.result.ok THEN "none" ELSE "update"]
    /\ backoff' = NoBackoff
    /\ UNCHANGED <<oracleIdle, requests>>

\* oracle-flow/main.rs 26-61: the binary enters its loop.
InitOracle ==
    /\ NoCycle
    /\ call = NoCall
    /\ update_flows_task = [pc |-> "idle"]
    /\ tasks = <<>>
    /\ current_task = 0
    /\ stream = [open |-> FALSE]
    /\ interrupt = FALSE
    /\ sent = {}
    /\ backoff = NoBackoff
    /\ requests = <<>>
    /\ main_loop = [pc |-> "select", error |-> "none"]

OracleSteps ==
    \/ OracleCtrlC
    \/ OraclePoll
    \/ OracleFetchState
    \/ OracleRebalanceCheck
    \/ OracleQuote
    \/ OracleAfterUpdate

NextOracle ==
    \/ OracleSteps
    \/ NextBackoff

\* The oracle-flow binary; the log of requests is the one of the cycle.
SpecOracle == InitOracle /\ [][NextOracle]_vars

\* The arms of the select: the interrupt and the sleep.
SelectSteps ==
    \/ OracleCtrlC
    \/ OraclePoll

\* The select does not wait for ever: the poll interval elapses.
SpecOracleLive == SpecOracle /\ WF_vars(SelectSteps)

\* The cycle is in the backoff submitter, or just out of it.
CycleUpdating == main_loop.pc = "updating"

\* C34: every update the oracle-driven cycle simulates or commits carries the
\* unrounded window index current_slot / ARRAY_LENGTH / end_slot_interval of
\* the slot the cycle read, the index evaluate_position computes.
C34_UnroundedIndex ==
    CycleUpdating =>
        \A i \in DOMAIN requests :
            requests[i].reference_index
                = WindowIndex(main_loop.market_state.current_slot, main_loop.market_state)

\* The index the updates do carry: the slot is rounded to the nearest
\* multiple of ARRAY_LENGTH first.
C34_RoundedIndex ==
    CycleUpdating =>
        \A i \in DOMAIN requests :
            requests[i].reference_index
                = ((main_loop.market_state.current_slot + ARRAY_LENGTH \div 2)
                       \div ARRAY_LENGTH) \div main_loop.market_state.end_slot_interval

\* An update was committed with an index that is not the evaluator's.
C34_Differs ==
    /\ CycleUpdating
    /\ \E i \in DOMAIN requests :
         /\ requests[i].kind = "commit"
         /\ requests[i].reference_index
                # WindowIndex(main_loop.market_state.current_slot, main_loop.market_state)

\* The cycle is at its rebalance check and needs_rebalance returns true.
RebalanceNeeded == main_loop.pc = "rebalance_check" /\ CycleNeedsRebalance

\* C39: a cycle in which needs_rebalance returns true ends there with the
\* error of execute_rebalance: the quote is not computed, nothing is
\* simulated or committed, and the loop is back at its select, where it is
\* not exited; from there the next cycle starts with the next poll interval,
\* unless the operator interrupts.
C39_RebalanceEndsCycle ==
    /\ [][RebalanceNeeded =>
             /\ main_loop' = CycleError("rebalance")
             /\ requests' = requests
             /\ requests = <<>>
             /\ backoff' = NoBackoff]_vars
    /\ [](main_loop.pc \in {"quote", "updating"} => ~CycleNeedsRebalance)
    /\ (main_loop = CycleError("rebalance"))
           ~> (main_loop.pc \in {"fetch_state", "exited"} \/ main_loop = CycleError("price"))

\* A cycle ended with the error of the rebalance and the loop is at its select.
C39_Witness ==
    /\ main_loop = CycleError("rebalance")
    /\ requests = <<>>
    /\ backoff = NoBackoff

====
